---- MODULE Spec2Model ----
(***************************************************************************)
(* Unified agent runtime of guyi-code-mother.                              *)
(*                                                                         *)
(*   Adapter B  ClaudeAgentService  (app/agent/service/agent_service_cc.py)*)
(*   Adapter A  AgentService        (app/agent/service/agent_service.py)   *)
(*                                                                         *)
(* Texts are sequences of one-character strings, so that slicing, line     *)
(* splitting and trimming are computed the way the Python code computes    *)
(* them.                                                                   *)
(***************************************************************************)
EXTENDS Integers, Sequences, FiniteSets, TLC

VARIABLES
    \* ---- Adapter B: fields of ClaudeAgentService and its environment ----
    sdk,              \* CLAUDE_SDK_AVAILABLE
    configOK,         \* create_claude_agent_client can build a client
    mkdirOK,          \* the workspace directory exists or can be created
    memory_store,     \* Session Store value for (user_id, app_id)
    client,           \* self.client: <<>> (None) or <<resume token>>
    connected,        \* self._connected
    agent_session_id, \* self.agent_session_id
    pc,               \* position of the turn in ainvoke / stream
    mode,             \* "invoke" or "stream": which method runs the turn
    hasQuery,         \* _construct_query(messages) is non-empty
    full_response,    \* local full_response of the turn
    yielded,          \* fragments the stream generator has yielded this turn
    ret,              \* <<>> or <<text returned by ainvoke this turn>>
    err,              \* the exception travelling to the except clause
    \* ---- Adapter B: observation of the run ----
    turn,             \* number of turns started
    nEvents,          \* events received in this turn
    attempts,         \* resume tokens of this turn's client.connect() calls
    discCalls,        \* client.disconnect() calls of this turn
    connectedInTurn,  \* a connect() of this turn succeeded
    store0,           \* Session Store value before the first turn
    lastInit,         \* session id of the most recently processed init event
    turnInit,         \* same, restricted to this turn
    firstYieldStore,  \* Session Store value when the first fragment was yielded
    savedAtYield,     \* every fragment was yielded with the init id already saved
    family,           \* vocabulary the backend answers with
    script,           \* how many events of Scenario this turn has matched
    resultSeen,       \* the result event of this turn was processed
    chainB,           \* assistant texts of this turn form a prefix chain
    cleanB,           \* ... and no forward difference is touched by the filter
    lastB,            \* last assistant text of this turn
    \* ---- Adapter A: locals of AgentService.stream and observation ----
    a_pc,
    a_full_output,
    a_yielded,
    a_n,              \* chunks received
    a_mode,           \* emission mode of the graph
    a_chain,          \* assistant strings emitted so far form a prefix chain
    a_last,           \* last assistant string emitted
    a_emit,           \* assistant text carried by the last chunk
    a_foreign,        \* a bare non-assistant message with text was received
    a_lastKind,       \* "assistant" / "other": what the last chunk carried
    a_ret,            \* <<>> or <<text returned by AgentService.ainvoke>>
    a_err,            \* the exception ainvoke caught, "" when none
    \* ---- create_agent_service and the calls made on the service ----
    backend,          \* "none", "langchain" (Adapter A) or "claude" (Adapter B)
    agent_type,       \* the argument agent_type, "unset" before the call
    default_type,     \* settings.DEFAULT_AGENT_TYPE
    probe,            \* <<>> or <<method, answer, signal>> of the last call
                      \* of interrupt() / is_available()
    \* ---- the file tools and the filesystem they work on ----
    fs,               \* real path |-> "dir", "link" or a file's content
    t_n,              \* tool calls made
    t_op,             \* the tool called last
    t_rejected,       \* _validate_path raised in the last call
    t_valid,          \* <<>> or <<path _validate_path returned>>
    t_out,            \* what the last call gave its caller
    t_read,              \* entries the last call opened or listed itself
    t_scanned,           \* directories the last call's glob expansion listed
    \* ---- _validate_path applied to one path ----
    v_pc,             \* "off", "in", "done"
    v_path,           \* the argument file_path
    v_ret,            \* <<>> or <<the path returned>>
    v_raised,         \* the ValueError was raised
    \* ---- grep_search once its files are matched ----
    g_pc,             \* "off", "in", "done"
    g_pre,            \* how the steps before the search went
    g_files,          \* matched_files: what glob gave, in glob's order
    g_max,            \* the argument max_results
    g_out,            \* the list returned
    g_opened,         \* indexes in matched_files of the files opened
    g_scanned,        \* lines the regular expression was tried on
    \* ---- the conversions of one Message ----
    m_pc,             \* "off" or "on"
    m_msg,            \* the Message converted
    m_dict,           \* <<>> or <<Message.from_dict(m.to_dict())>>
    m_lc,             \* <<>> or <<Message.from_langchain(m.to_langchain())>>
    m_cl,             \* <<>> or <<Message.from_dict(m.to_claude_format())>>
    \* ---- turns of several services on one Session Store key ----
    c_pc,             \* turn |-> "idle", "connected", "init", "saved", "done"
    c_resume,         \* turn |-> the session id its _connect read
    c_sid,            \* turn |-> the session id of its init event
    c_store,          \* the Session Store value of the (user_id, app_id)
    c_issued,         \* the session ids in the order the backend issued them
    c_writes,         \* the turns in the order their save_session_id landed
    c_serial,         \* no turn has started while another was in flight
    \* ---- one event sequence given to ainvoke and to stream ----
    p_pc,             \* "off", "receive", "done"
    p_n,              \* events received
    p_ev,             \* <<>> or <<the event processed last>>
    p_invoke,         \* full_response of ainvoke
    p_stream,         \* full_response of stream
    p_yielded,        \* fragments stream has yielded
    p_ret,            \* <<>> or <<text ainvoke returned>>
    \* ---- _filter_content applied to one text, and to its own output ----
    f_pc,             \* "off", "in", "once", "twice"
    f_content,        \* the argument content
    f_out,            \* _filter_content(content)
    f_out2            \* _filter_content(_filter_content(content))

varsB == <<sdk, configOK, mkdirOK, memory_store, client, connected, agent_session_id,
           pc, mode, hasQuery, full_response, yielded, ret, err, turn,
           nEvents, attempts, discCalls, connectedInTurn, store0, lastInit,
           turnInit, firstYieldStore, savedAtYield, family, script,
           resultSeen, chainB, cleanB, lastB>>

varsA == <<a_pc, a_full_output, a_yielded, a_n, a_mode, a_chain, a_last,
           a_emit, a_foreign, a_lastKind, a_ret, a_err>>

varsS == <<backend, agent_type, default_type, probe>>

varsF == <<f_pc, f_content, f_out, f_out2>>

varsV == <<v_pc, v_path, v_ret, v_raised>>
varsG == <<g_pc, g_pre, g_files, g_max, g_out, g_opened, g_scanned>>
varsM == <<m_pc, m_msg, m_dict, m_lc, m_cl>>
varsC == <<c_pc, c_resume, c_sid, c_store, c_issued, c_writes, c_serial>>
varsP == <<p_pc, p_n, p_ev, p_invoke, p_stream, p_yielded, p_ret>>
varsX == <<varsG, varsM, varsC, varsP>>
callsT == <<fs, t_n, t_op, t_rejected, t_valid, t_out, t_read, t_scanned>>
varsT == <<callsT, varsV, varsX>>

vars == <<varsB, varsA, varsF, varsS, varsT>>

\* ------------------------------------------------------------------ bounds
MaxLen == 2
MaxEvents == 3
MaxTurns == 2
MaxChunks == 3
MaxText == 4
MaxBrief == 2
MaxPath == 2
MaxCalls == 2
MaxSearch == 1
MaxFiles == 2
MaxLines == 2
MaxRes == 2
MaxProcs == 2

\* ------------------------------------------------------------------ values
None == "None"
Tokens == {"S1", "S2"}
NL == "\n"
Chars == {"a", NL}
WhiteSpace == {" ", NL, "\t", "\r"}

Strings(A, n) == UNION { [1..k -> A] : k \in 0..n }

Hello == <<"H", "e", "l", "l", "o">>
HelloWorld == Hello \o <<" ", "w", "o", "r", "l", "d">>
HelloWorldBang == HelloWorld \o <<"!">>
NoContent == <<"(", "n", "o", " ", "c", "o", "n", "t", "e", "n", "t", ")">>
NoneText == <<"N", "o", "n", "e">>

\* The texts a backend answers with.  "terse" backends are followed over
\* MaxTurns turns, the wordier ones over one turn.
TextsOf(f) ==
    IF f = "free" THEN Strings(Chars, MaxLen)
    ELSE IF f = "greeting" THEN {Hello, HelloWorld, HelloWorldBang}
    ELSE {<<"a">>, <<"a", "a">>}

TurnsOf(f) == IF f = "terse" THEN MaxTurns ELSE 1

\* -------------------------------------------------------- string helpers
RECURSIVE Flatten(_)
Flatten(ss) == IF ss = <<>> THEN <<>> ELSE Head(ss) \o Flatten(Tail(ss))

IsPrefix(p, s) == Len(p) <= Len(s) /\ SubSeq(s, 1, Len(p)) = p

\* s[n:] of Python
From(s, n) == SubSeq(s, n + 1, Len(s))

\* str.split('\n')
RECURSIVE Split(_)
Split(s) ==
    IF \A i \in 1..Len(s) : s[i] # NL THEN <<s>>
    ELSE LET i == CHOOSE j \in 1..Len(s) :
                      s[j] = NL /\ \A k \in 1..(j - 1) : s[k] # NL
         IN  <<SubSeq(s, 1, i - 1)>> \o Split(From(s, i))

\* '\n'.join(lines)
RECURSIVE Join(_)
Join(ls) ==
    IF ls = <<>> THEN <<>>
    ELSE IF Len(ls) = 1 THEN ls[1]
    ELSE ls[1] \o <<NL>> \o Join(Tail(ls))

\* str.strip()
RECURSIVE LStrip(_)
LStrip(s) == IF s # <<>> /\ Head(s) \in WhiteSpace THEN LStrip(Tail(s)) ELSE s

RECURSIVE RStrip(_)
RStrip(s) ==
    IF s # <<>> /\ s[Len(s)] \in WhiteSpace
    THEN RStrip(SubSeq(s, 1, Len(s) - 1)) ELSE s

Strip(s) == RStrip(LStrip(s))

BlankLine_empty(l) == l = <<>>

\* re.search(r'^\s*$', line) on a line without '\n'
BlankLine(l) == \A i \in 1..Len(l) : l[i] \in WhiteSpace

SelectLines_first(ls) ==
    IF \A i \in 1..Len(ls) : ~BlankLine(ls[i]) THEN ls
    ELSE LET i == CHOOSE j \in 1..Len(ls) :
                      BlankLine(ls[j]) /\ \A k \in 1..(j - 1) : ~BlankLine(ls[k])
         IN  SubSeq(ls, 1, i - 1) \o SubSeq(ls, i + 1, Len(ls))

\* the loop over lines: clean_lines keeps the lines that are not blank
SelectLines(ls) == SelectSeq(ls, LAMBDA l : ~BlankLine(l))

\* ClaudeAgentService._filter_content
FilterContent(content) ==
    IF content = <<>> THEN <<>>
    ELSE IF Strip(content) = NoContent THEN <<>>
    ELSE Join(SelectLines(Split(content)))

\* ------------------------------------------------------------ Session Store
\* MemoryStore.get_session_id / save_session_id for the one (user_id, app_id)
GetSessionId(st) == st

SaveSessionId(st, token) == token

\* --------------------------------------------------- texts shown to callers
SdkApology == <<"apology", "sdk">>
ConfigApology == <<"apology", "config">>
AskQuestion == <<"ask">>
NoReply == <<"apology", "noreply">>
ErrApology(e) == <<"apology", e>>

\* ------------------------------------------------------------ backend events
NoClient == <<>>
TextBlock(t) == [kind |-> "text", text |-> t]
ToolUseBlock == [kind |-> "tool_use", text |-> <<>>]
Ev(t, st, sid, bl, res) ==
    [type |-> t, subtype |-> st, sid |-> sid, blocks |-> bl, result |-> res]
\* SystemMessage(subtype="init", data={"session_id": sid}); sid = None: no key
InitEv(sid) == Ev("system", "init", sid, <<>>, <<>>)
SystemEv == Ev("system", "other", None, <<>>, <<>>)
AssistantEv(bl) == Ev("assistant", "", None, bl, <<>>)
\* ResultMessage(result=r): r is <<>> for None, <<text>> for a string
ResultEv(r) == Ev("result", "", None, <<>>, r)
UserEv == Ev("user", "", None, <<>>, <<>>)

BlockSeqs(f) ==
    {<<TextBlock(t)>> : t \in TextsOf(f)} \cup {<<ToolUseBlock>>} \cup
    {<<ToolUseBlock, TextBlock(t)>> : t \in TextsOf(f) \cap {<<"a">>}} \cup
    {<<TextBlock(t), TextBlock(t \o t)>> : t \in TextsOf(f) \cap {<<"a">>}}

Events(f) ==
    {InitEv(s) : s \in Tokens \cup {None}} \cup {SystemEv, UserEv} \cup
    {AssistantEv(b) : b \in BlockSeqs(f)} \cup
    {ResultEv(<<t>>) : t \in TextsOf(f)} \cup {ResultEv(<<>>)}

\* str(message.result)
StrOf(r) == IF r = <<>> THEN NoneText ELSE r[1]

Scenario ==
    << InitEv("S1"), AssistantEv(<<TextBlock(Hello)>>),
       AssistantEv(<<TextBlock(HelloWorld)>>), ResultEv(<<HelloWorldBang>>) >>

\* events followed per turn: the greeting backend is given room for Scenario
EventsOf(f) ==
    IF f = "greeting" THEN Len(Scenario)
    ELSE IF f = "brief" THEN MaxBrief
    ELSE MaxEvents

\* =========================================================== Adapter B
\* _connect, first line: a connection left open is reused as it is
ConnectNeeded(conn, cl) == ~(conn /\ cl # NoClient)

\* _connect: resume token of the first client
FirstResume(st) == GetSessionId(st)

RetryResume_keepToken(sid) == sid

\* _connect, except branch: resume token of the second client
RetryResume(sid) == None

StoreAfterReject_clear(st) == None

\* _connect, except branch: what the rejected resume does to the Session Store
StoreAfterReject(st) == st

Disconnect_raises(conn, cl, ok) ==
    IF ~conn \/ cl = NoClient
    THEN [connected |-> conn, called |-> 0, raised |-> FALSE]
    ELSE [connected |-> IF ok THEN FALSE ELSE conn, called |-> 1,
          raised |-> ~ok]

\* _disconnect; ok says whether client.disconnect() returns or raises; the
\* exception is logged by _disconnect itself and never leaves it
Disconnect(conn, cl, ok) ==
    IF ~conn \/ cl = NoClient
    THEN [connected |-> conn, called |-> 0, raised |-> FALSE]
    ELSE [connected |-> IF ok THEN FALSE ELSE conn, called |-> 1,
          raised |-> FALSE]

\* SystemMessage branch of the receive loop
CarriesSession(ev) ==
    ev.type = "system" /\ ev.subtype = "init" /\ ev.sid # None

StoreOnInit_deferred(st, ev) == st

StoreOnInit(st, ev) ==
    IF CarriesSession(ev) THEN SaveSessionId(st, ev.sid) ELSE st

SessionOnInit(sid, ev) == IF CarriesSession(ev) THEN ev.sid ELSE sid

StreamDelta_whole(full, text) == text

\* stream, AssistantMessage branch: one TextBlock
StreamDelta(full, text) == From(text, Len(full))

StreamText(full, text) ==
    IF Len(text) > Len(full)
    THEN LET filtered == FilterContent(StreamDelta(full, text))
         IN  [full |-> text,
              out |-> IF filtered # <<>> THEN <<filtered>> ELSE <<>>]
    ELSE [full |-> full, out |-> <<>>]

\* stream, AssistantMessage branch: for content_block in message.content
RECURSIVE StreamBlocks(_, _)
StreamBlocks(full, blocks) ==
    IF blocks = <<>> THEN [full |-> full, out |-> <<>>]
    ELSE LET b == Head(blocks)
             s == IF b.kind = "text" THEN StreamText(full, b.text)
                  ELSE [full |-> full, out |-> <<>>]
             r == StreamBlocks(s.full, Tail(blocks))
         IN  [full |-> r.full, out |-> s.out \o r.out]

StreamResult_whole(full, res) ==
    LET result_text == FilterContent(StrOf(res)) IN
    IF result_text # <<>> /\ Len(result_text) > Len(full)
    THEN [full |-> result_text, out |-> <<result_text>>]
    ELSE [full |-> full, out |-> <<>>]

\* stream, ResultMessage branch
StreamResult(full, res) ==
    LET result_text == FilterContent(StrOf(res)) IN
    IF result_text # <<>> /\ Len(result_text) > Len(full)
    THEN LET new_content == From(result_text, Len(full))
         IN  [full |-> result_text,
              out |-> IF new_content # <<>> THEN <<new_content>> ELSE <<>>]
    ELSE [full |-> full, out |-> <<>>]

\* ainvoke, AssistantMessage branch
RECURSIVE InvokeBlocks(_, _)
InvokeBlocks(full, blocks) ==
    IF blocks = <<>> THEN full
    ELSE LET b == Head(blocks)
         IN  InvokeBlocks(IF b.kind = "text" THEN full \o b.text ELSE full,
                          Tail(blocks))

\* ainvoke, ResultMessage branch
InvokeResult(full, res) ==
    LET result_text == FilterContent(StrOf(res)) IN
    IF result_text # <<>> THEN full \o result_text ELSE full

\* ainvoke, the return after the loop
InvokeReturn(full) ==
    LET filtered_response == FilterContent(full) IN
    IF filtered_response # <<>> THEN Strip(filtered_response) ELSE NoReply

\* what one event does to (full_response, fragments yielded)
OnEvent(m, full, ev) ==
    IF ev.type = "assistant"
    THEN IF m = "stream" THEN StreamBlocks(full, ev.blocks)
         ELSE [full |-> InvokeBlocks(full, ev.blocks), out |-> <<>>]
    ELSE IF ev.type = "result"
    THEN IF m = "stream" THEN StreamResult(full, ev.result)
         ELSE [full |-> InvokeResult(full, ev.result), out |-> <<>>]
    ELSE [full |-> full, out |-> <<>>]

\* ---- observation of the assistant texts of a turn
DeltaUntouched(d) ==
    d = <<>> \/ (Strip(d) # NoContent /\
                 \A i \in 1..Len(Split(d)) : ~BlankLine(Split(d)[i]))

RECURSIVE ObserveBlocks(_, _)
ObserveBlocks(o, blocks) ==
    IF blocks = <<>> THEN o
    ELSE LET b == Head(blocks)
             n == IF b.kind # "text" THEN o
                  ELSE [chain |-> o.chain /\ IsPrefix(o.last, b.text),
                        clean |-> o.clean /\ IsPrefix(o.last, b.text) /\
                                  DeltaUntouched(From(b.text, Len(o.last))),
                        last  |-> b.text]
         IN  ObserveBlocks(n, Tail(blocks))

TurnEnded == pc = "idle" /\ turn > 0

\* what the steps of an Adapter B turn leave alone
frameA == <<varsA, varsF, varsS, varsT>>

\* ---- the turn, step by step
obsB == <<store0, lastInit, turnInit, firstYieldStore, savedAtYield,
          script, resultSeen, chainB, cleanB, lastB>>
envB == <<sdk, configOK, mkdirOK, family>>

\* ainvoke / stream are entered
B_Start(m, q) ==
    /\ pc = "idle" /\ turn < TurnsOf(family) /\ sdk
    /\ pc' = "ensure"
    /\ mode' = m /\ hasQuery' = q
    /\ turn' = turn + 1
    /\ full_response' = <<>> /\ yielded' = <<>> /\ ret' = <<>> /\ err' = ""
    /\ nEvents' = 0 /\ attempts' = <<>> /\ discCalls' = 0
    /\ connectedInTurn' = FALSE /\ turnInit' = None
    /\ firstYieldStore' = "-" /\ savedAtYield' = TRUE
    /\ script' = 0 /\ resultSeen' = FALSE
    /\ chainB' = TRUE /\ cleanB' = TRUE /\ lastB' = <<>>
    /\ UNCHANGED <<envB, memory_store, client, connected,
                   agent_session_id, store0, lastInit>>
    /\ UNCHANGED frameA

\* ainvoke / stream without the SDK: the fixed apology, nothing else
B_SdkMissing(m, q) ==
    /\ pc = "idle" /\ turn < TurnsOf(family) /\ ~sdk
    /\ pc' = "idle"
    /\ mode' = m /\ hasQuery' = q
    /\ turn' = turn + 1
    /\ full_response' = <<>> /\ err' = ""
    /\ yielded' = IF m = "stream" THEN <<SdkApology>> ELSE <<>>
    /\ ret' = IF m = "invoke" THEN <<SdkApology>> ELSE <<>>
    /\ nEvents' = 0 /\ attempts' = <<>> /\ discCalls' = 0
    /\ connectedInTurn' = FALSE /\ turnInit' = None
    /\ firstYieldStore' = IF m = "stream" THEN memory_store ELSE "-"
    /\ savedAtYield' = TRUE
    /\ script' = 0 /\ resultSeen' = FALSE
    /\ chainB' = TRUE /\ cleanB' = TRUE /\ lastB' = <<>>
    /\ UNCHANGED <<envB, memory_store, client, connected,
                   agent_session_id, store0, lastInit>>
    /\ UNCHANGED frameA

\* _ensure_workspace_exists: mkdir may fail, the failure is only logged
B_EnsureWorkspace ==
    /\ pc = "ensure"
    /\ pc' = "connect"      \* with mkdirOK or without it
    /\ UNCHANGED <<envB, memory_store, client, connected, agent_session_id,
                   mode, hasQuery, full_response, yielded, ret, err, turn,
                   nEvents, attempts, discCalls, connectedInTurn, obsB>>
    /\ UNCHANGED frameA

\* _connect up to the first client.connect()
B_Connect ==
    /\ pc = "connect"
    /\ IF ~ConnectNeeded(connected, client)
       THEN /\ pc' = "check"
            /\ UNCHANGED <<client, connected, agent_session_id, attempts,
                           connectedInTurn, err>>
       ELSE \E rd \in BOOLEAN :
            IF ~rd
            THEN \* memory_store.get_session_id raises
                 /\ client' = NoClient /\ connected' = FALSE
                 /\ pc' = "except" /\ err' = "store"
                 /\ UNCHANGED <<agent_session_id, attempts, connectedInTurn>>
            ELSE LET sid == FirstResume(memory_store) IN
                 /\ agent_session_id' = sid
                 /\ IF ~configOK
                    THEN /\ client' = NoClient /\ connected' = FALSE
                         /\ pc' = "except" /\ err' = "config"
                         /\ UNCHANGED <<attempts, connectedInTurn>>
                    ELSE /\ client' = <<sid>>
                         /\ attempts' = Append(attempts, sid)
                         /\ \E ok \in BOOLEAN :
                              /\ connected' = ok
                              /\ connectedInTurn' = ok
                              /\ pc' = IF ok THEN "check" ELSE "retry"
                         /\ UNCHANGED err
    /\ UNCHANGED <<envB, memory_store, mode, hasQuery,
                   full_response, yielded, ret, turn, nEvents, discCalls,
                   obsB>>
    /\ UNCHANGED frameA

\* _connect, the except branch of the first connect()
B_Retry ==
    /\ pc = "retry"
    /\ agent_session_id' = None
    /\ memory_store' = StoreAfterReject(memory_store)
    /\ attempts' = Append(attempts, RetryResume(agent_session_id))
    /\ \E ok \in BOOLEAN :
         /\ connected' = ok
         /\ connectedInTurn' = ok
         /\ client' = IF ok THEN <<RetryResume(agent_session_id)>> ELSE NoClient
         /\ pc' = IF ok THEN "check" ELSE "except"
         /\ err' = IF ok THEN err ELSE "connect"
    /\ UNCHANGED <<envB, mode, hasQuery, full_response, yielded,
                   ret, turn, nEvents, discCalls, obsB>>
    /\ UNCHANGED frameA

\* the two early returns after _connect; neither calls _disconnect
B_CheckQuery ==
    /\ pc = "check"
    /\ IF client = NoClient
       THEN /\ pc' = "idle"
            /\ ret' = IF mode = "invoke" THEN <<ConfigApology>> ELSE ret
            /\ yielded' = IF mode = "stream"
                          THEN Append(yielded, ConfigApology) ELSE yielded
            /\ firstYieldStore' = IF mode = "stream"
                                  THEN memory_store ELSE firstYieldStore
            /\ UNCHANGED <<connected, discCalls>>
       ELSE IF ~hasQuery
       THEN /\ pc' = "idle"
            /\ ret' = IF mode = "invoke" THEN <<AskQuestion>> ELSE ret
            /\ yielded' = IF mode = "stream"
                          THEN Append(yielded, AskQuestion) ELSE yielded
            /\ firstYieldStore' = IF mode = "stream"
                                  THEN memory_store ELSE firstYieldStore
            /\ UNCHANGED <<connected, discCalls>>
       ELSE /\ pc' = "query"
            /\ UNCHANGED <<ret, yielded, firstYieldStore, connected,
                           discCalls>>
    /\ UNCHANGED <<envB, memory_store, client, agent_session_id,
                   mode, hasQuery, full_response, err, turn, nEvents,
                   attempts, connectedInTurn, store0, lastInit, turnInit,
                   savedAtYield, script, resultSeen, chainB, cleanB, lastB>>
    /\ UNCHANGED frameA

AfterQuery_ignored(ok) == "receive"

\* client.query(query) returns, or raises into the except clause
AfterQuery(ok) == IF ok THEN "receive" ELSE "except"

\* client.query(query)
B_Query ==
    /\ pc = "query"
    /\ \E ok \in BOOLEAN :
         /\ pc' = AfterQuery(ok)
         /\ err' = IF ok THEN err ELSE "query"
    /\ UNCHANGED <<envB, memory_store, client, connected,
                   agent_session_id, mode, hasQuery, full_response, yielded,
                   ret, turn, nEvents, attempts, discCalls, connectedInTurn,
                   obsB>>
    /\ UNCHANGED frameA

AfterEvent_goOn(ev) == "receive"

\* the break at the end of the ResultMessage branch
AfterEvent(ev) == IF ev.type = "result" THEN "disconnect" ELSE "receive"

\* one pass of the body of: async for message in client.receive_response()
B_Receive(ev) ==
    /\ pc = "receive" /\ nEvents < EventsOf(family)
    /\ LET r == OnEvent(mode, full_response, ev)
           b == [chain |-> chainB, clean |-> cleanB, last |-> lastB]
           o == IF mode = "stream" THEN ObserveBlocks(b, ev.blocks) ELSE b
           t == IF CarriesSession(ev) THEN ev.sid ELSE turnInit
       IN  /\ full_response' = r.full
           /\ yielded' = yielded \o r.out
           /\ memory_store' = StoreOnInit(memory_store, ev)
           /\ agent_session_id' = SessionOnInit(agent_session_id, ev)
           /\ firstYieldStore' = IF yielded = <<>> /\ r.out # <<>>
                                 THEN memory_store' ELSE firstYieldStore
           /\ savedAtYield' = (savedAtYield /\
                                 (t = None \/ memory_store' = t))
           /\ turnInit' = t
           /\ chainB' = o.chain /\ cleanB' = o.clean /\ lastB' = o.last
    /\ nEvents' = nEvents + 1
    /\ pc' = AfterEvent(ev)
    /\ resultSeen' = (ev.type = "result")
    /\ lastInit' = IF CarriesSession(ev) THEN ev.sid ELSE lastInit
    /\ script' = IF script = nEvents /\ nEvents < Len(Scenario)
                    /\ ev = Scenario[nEvents + 1]
                 THEN script + 1 ELSE script
    /\ UNCHANGED <<envB, client, connected, mode, hasQuery, ret,
                   err, turn, attempts, discCalls, connectedInTurn, store0>>
    /\ UNCHANGED frameA

\* receive_response() ends without a result event
B_ReceiveEnd ==
    /\ pc = "receive"
    /\ pc' = "disconnect"
    /\ UNCHANGED <<envB, memory_store, client, connected,
                   agent_session_id, mode, hasQuery, full_response, yielded,
                   ret, err, turn, nEvents, attempts, discCalls,
                   connectedInTurn, obsB>>
    /\ UNCHANGED frameA

\* receive_response() raises
B_ReceiveFail ==
    /\ pc = "receive"
    /\ pc' = "except" /\ err' = "receive"
    /\ UNCHANGED <<envB, memory_store, client, connected,
                   agent_session_id, mode, hasQuery, full_response, yielded,
                   ret, turn, nEvents, attempts, discCalls, connectedInTurn,
                   obsB>>
    /\ UNCHANGED frameA

\* after the loop: _disconnect, then the return
B_Disconnect ==
    /\ pc = "disconnect"
    /\ \E ok \in BOOLEAN :
         LET d == Disconnect(connected, client, ok) IN
         /\ connected' = d.connected
         /\ discCalls' = discCalls + d.called
         /\ pc' = IF d.raised THEN "except" ELSE "idle"
         /\ err' = IF d.raised THEN "disconnect" ELSE err
         /\ ret' = IF mode = "invoke" /\ ~d.raised
                   THEN <<InvokeReturn(full_response)>> ELSE ret
    /\ UNCHANGED <<envB, memory_store, client, agent_session_id,
                   mode, hasQuery, full_response, yielded, turn, nEvents,
                   attempts, connectedInTurn, obsB>>
    /\ UNCHANGED frameA

\* except Exception: _disconnect, then the apology
B_Except ==
    /\ pc = "except"
    /\ \E ok \in BOOLEAN :
         LET d == Disconnect(connected, client, ok) IN
         /\ connected' = d.connected
         /\ discCalls' = discCalls + d.called
         \* an exception of _disconnect would leave the except clause
         /\ ret' = IF mode = "invoke" /\ ~d.raised
                   THEN <<ErrApology(err)>> ELSE ret
         /\ yielded' = IF mode = "stream" /\ ~d.raised
                       THEN Append(yielded, ErrApology(err)) ELSE yielded
    /\ firstYieldStore' = IF mode = "stream" /\ yielded = <<>>
                          THEN memory_store ELSE firstYieldStore
    /\ pc' = "idle"
    /\ UNCHANGED <<envB, memory_store, client, agent_session_id,
                   mode, hasQuery, full_response, err, turn, nEvents,
                   attempts, connectedInTurn, store0, lastInit, turnInit,
                   savedAtYield, script, resultSeen, chainB, cleanB, lastB>>
    /\ UNCHANGED frameA

\* ---- the filesystem the tools start on
Root == <<"w">>
LinkTarget == (<<"w", "l">> :> <<"o">>)
Fs0 ==
    (<<>> :> "dir") @@ (<<"w">> :> "dir") @@ (<<"w", "d">> :> "dir") @@
    (<<"w", "f">> :> "x") @@ (<<"w", "l">> :> "link") @@
    (<<"o">> :> "dir") @@ (<<"o", "f">> :> "y")
NoOut == [kind |-> "none", items |-> {}]

NoPath == [abs |-> FALSE, parts |-> <<>>]
IdleV == v_pc = "off" /\ v_path = NoPath /\ v_ret = <<>> /\ v_raised = FALSE
NoCalls ==
    /\ t_n = 0 /\ t_op = "none" /\ t_rejected = FALSE
    /\ t_valid = <<>> /\ t_out = NoOut /\ t_read = {} /\ t_scanned = {}
NoList == [kind |-> "none", records |-> <<>>, files_searched |-> 0]
IdleG ==
    /\ g_pc = "off" /\ g_pre = "ok" /\ g_files = <<>> /\ g_max = 0
    /\ g_out = NoList /\ g_opened = <<>> /\ g_scanned = 0
NoMessage == [role |-> "user", content |-> <<>>, metadata |-> {}]
IdleM ==
    /\ m_pc = "off" /\ m_msg = NoMessage
    /\ m_dict = <<>> /\ m_lc = <<>> /\ m_cl = <<>>
IdleC ==
    /\ c_pc = <<>> /\ c_resume = <<>> /\ c_sid = <<>> /\ c_store = None
    /\ c_issued = <<>> /\ c_writes = <<>> /\ c_serial = TRUE
IdleP ==
    /\ p_pc = "off" /\ p_n = 0 /\ p_ev = <<>> /\ p_invoke = <<>>
    /\ p_stream = <<>> /\ p_yielded = <<>> /\ p_ret = <<>>
IdleX == IdleG /\ IdleM /\ IdleC /\ IdleP
IdleT == fs = Fs0 /\ NoCalls /\ IdleV /\ IdleX

IdleF == f_pc = "off" /\ f_content = <<>> /\ f_out = <<>> /\ f_out2 = <<>>

IdleA ==
    /\ a_pc = "off" /\ a_full_output = <<>> /\ a_yielded = <<>> /\ a_n = 0
    /\ a_mode = "incremental" /\ a_chain = TRUE /\ a_last = <<>>
    /\ a_emit = <<>> /\ a_foreign = FALSE /\ a_lastKind = "none"
    /\ a_ret = <<>> /\ a_err = ""

\* ClaudeAgentService.__init__
ConstructedB ==
    /\ sdk \in BOOLEAN /\ configOK \in BOOLEAN /\ mkdirOK \in BOOLEAN
    /\ memory_store \in Tokens \cup {None}
    /\ store0 = memory_store
    /\ client = NoClient /\ connected = FALSE /\ agent_session_id = None
    /\ pc = "idle" /\ mode = "invoke" /\ hasQuery = FALSE
    /\ full_response = <<>> /\ yielded = <<>> /\ ret = <<>> /\ err = ""
    /\ turn = 0 /\ nEvents = 0 /\ attempts = <<>> /\ discCalls = 0
    /\ connectedInTurn = FALSE /\ lastInit = None /\ turnInit = None
    /\ firstYieldStore = "-" /\ savedAtYield = TRUE
    /\ script = 0 /\ resultSeen = FALSE
    /\ chainB = TRUE /\ cleanB = TRUE /\ lastB = <<>>
    /\ IdleA
    /\ IdleF
    /\ IdleT
    /\ backend = "claude" /\ agent_type = "claude"
    /\ default_type = "langchain" /\ probe = <<>>

NextB ==
    \/ \E m \in {"invoke", "stream"}, q \in BOOLEAN : B_Start(m, q)
    \/ \E m \in {"invoke", "stream"}, q \in BOOLEAN : B_SdkMissing(m, q)
    \/ B_EnsureWorkspace
    \/ B_Connect
    \/ B_Retry
    \/ B_CheckQuery
    \/ B_Query
    \/ \E ev \in Events(family) : B_Receive(ev)
    \/ B_ReceiveEnd
    \/ B_ReceiveFail
    \/ B_Disconnect
    \/ B_Except

\* the session lifecycle over several turns
InitB == ConstructedB /\ family = "terse"
SpecB == InitB /\ [][NextB]_vars

\* the caller abandons a stream that has yielded: aclose() raises
\* GeneratorExit at the yield, cancelling the consumer raises CancelledError
\* at the await; neither is an Exception, so the except clause is passed by
\* and the generator ends where it stands
B_Close ==
    /\ pc = "receive" /\ mode = "stream" /\ yielded # <<>>
    /\ pc' = "idle"
    /\ UNCHANGED <<envB, memory_store, client, connected,
                   agent_session_id, mode, hasQuery, full_response, yielded,
                   ret, err, turn, nEvents, attempts, discCalls,
                   connectedInTurn, obsB>>
    /\ UNCHANGED frameA

NextBC == NextB \/ B_Close

\* the session lifecycle when streams may be abandoned
SpecBC == InitB /\ [][NextBC]_vars

\* the reply text of one turn
InitBT == ConstructedB /\ family \in {"free", "greeting"} /\ mkdirOK
SpecBT == InitBT /\ [][NextB]_vars

\* =========================================================== Adapter A
\* what astream(agent_input, stream_mode="messages") can hand to the loop
Kinds == {"ai", "human", "system", "tool"}
StrContent(t) == [str |-> TRUE, text |-> t]
\* a content that is no str (a list of content blocks)
ListContent == [str |-> FALSE, text |-> <<>>]
Contents == {StrContent(t) : t \in TextsOf("free")} \cup {ListContent}
Msg(k, c) == [kind |-> k, content |-> c]
Msgs == {Msg(k, c) : k \in Kinds, c \in Contents}
\* the messages of the two-message batches
PairMsgs ==
    {Msg(k, c) : k \in Kinds,
                 c \in {StrContent(t) : t \in TextsOf("terse")} \cup {ListContent}}
AiMsgs == {m \in PairMsgs : m.kind = "ai"}
Chunk(sh, ms, c) == [shape |-> sh, msgs |-> ms, content |-> c]
Chunks ==
    {Chunk(sh, <<m>>, ListContent) : sh \in {"message", "tuple"}, m \in Msgs}
    \cup {Chunk("batch", <<m>>, ListContent) : m \in Msgs}
    \cup {Chunk("batch", <<m, n>>, ListContent) : m \in PairMsgs, n \in AiMsgs}
    \cup {Chunk("batch", <<m, n>>, ListContent) : m \in AiMsgs, n \in PairMsgs}
    \cup {Chunk(sh, <<>>, c) : sh \in {"output", "str"}, c \in Contents}
    \cup {Chunk("object", <<>>, ListContent)}

A_Diff_geq(full, content) ==
    IF Len(content) >= Len(full)
    THEN [full |-> content, out |-> <<From(content, Len(full))>>]
    ELSE [full |-> full, out |-> <<>>]

\* stream: the forward difference, written out in each branch of the loop
A_Diff(full, content) ==
    IF Len(content) > Len(full)
    THEN [full |-> content, out |-> <<From(content, Len(full))>>]
    ELSE [full |-> full, out |-> <<>>]

A_Keep(full) == [full |-> full, out |-> <<>>]

\* stream, the branch for a message object (after the tuple is unwrapped)
A_OnMessage(full, m) ==
    IF m.kind = "ai"
    THEN IF m.content.str /\ m.content.text # <<>>
         THEN A_Diff(full, m.content.text) ELSE A_Keep(full)
    ELSE IF m.content.str THEN A_Diff(full, m.content.text)
    ELSE A_Keep(full)

\* stream, the dict branch: for msg in chunk["messages"]
RECURSIVE A_OnBatch(_, _)
A_OnBatch(full, ms) ==
    IF ms = <<>> THEN A_Keep(full)
    ELSE LET m == Head(ms)
             s == IF m.kind = "ai" /\ m.content.str /\ m.content.text # <<>>
                  THEN A_Diff(full, m.content.text) ELSE A_Keep(full)
             r == A_OnBatch(s.full, Tail(ms))
         IN  [full |-> r.full, out |-> s.out \o r.out]

\* stream, the body of: async for chunk in self.agent.astream(...)
A_OnChunk(full, c) ==
    IF c.shape \in {"message", "tuple"} THEN A_OnMessage(full, c.msgs[1])
    ELSE IF c.shape = "batch" THEN A_OnBatch(full, c.msgs)
    ELSE IF c.shape \in {"output", "str"}
    THEN IF c.content.str THEN A_Diff(full, c.content.text) ELSE A_Keep(full)
    ELSE A_Keep(full)

\* ---- observation: the assistant strings a chunk carries, in order
RECURSIVE AssistantTexts(_)
AssistantTexts(ms) ==
    IF ms = <<>> THEN <<>>
    ELSE (IF Head(ms).kind = "ai" /\ Head(ms).content.str
          THEN <<Head(ms).content.text>> ELSE <<>>) \o AssistantTexts(Tail(ms))

CarriedTexts(c) ==
    IF c.shape \in {"output", "str"}
    THEN IF c.content.str THEN <<c.content.text>> ELSE <<>>
    ELSE AssistantTexts(c.msgs)

\* the chunk holds an assistant message or an assistant text
CarriesAssistant(c) ==
    \/ c.shape \in {"output", "str"}
    \/ \E i \in 1..Len(c.msgs) : c.msgs[i].kind = "ai"

\* a message of another kind that arrives on its own, with a text
IsForeign(c) ==
    /\ c.shape \in {"message", "tuple"}
    /\ c.msgs[1].kind # "ai" /\ c.msgs[1].content.str
    /\ c.msgs[1].content.text # <<>>

RECURSIVE ChainFrom(_, _)
ChainFrom(last, ts) ==
    IF ts = <<>> THEN TRUE
    ELSE IsPrefix(last, Head(ts)) /\ ChainFrom(Head(ts), Tail(ts))

frameB == <<varsB, varsF, varsS, varsT>>

A_Fail_silent ==
    /\ a_pc = "streaming"
    /\ a_pc' = "failed"
    /\ UNCHANGED <<a_full_output, a_yielded, a_n, a_mode, a_chain, a_last,
                   a_emit, a_foreign, a_lastKind, a_ret, a_err>>
    /\ UNCHANGED frameB

\* stream is entered; an empty message list is answered at once
A_Start(empty) ==
    /\ a_pc = "idle"
    /\ a_pc' = IF empty THEN "asked" ELSE "streaming"
    /\ a_yielded' = IF empty THEN <<AskQuestion>> ELSE <<>>
    /\ a_full_output' = <<>>
    /\ UNCHANGED <<a_n, a_mode, a_chain, a_last, a_emit, a_foreign,
                   a_lastKind, a_ret, a_err>>
    /\ UNCHANGED frameB

\* one chunk of the graph goes through the loop body
A_Chunk(c) ==
    /\ a_pc = "streaming" /\ a_n < MaxChunks
    /\ a_mode = "cumulative" => ChainFrom(a_last, CarriedTexts(c))
    /\ LET r == A_OnChunk(a_full_output, c)
           ts == CarriedTexts(c)
       IN  /\ a_full_output' = r.full
           /\ a_yielded' = a_yielded \o r.out
           /\ a_chain' = (a_chain /\ ChainFrom(a_last, ts))
           /\ a_last' = IF ts = <<>> THEN a_last ELSE ts[Len(ts)]
           /\ a_emit' = Flatten(ts)
    /\ a_n' = a_n + 1
    /\ a_foreign' = (a_foreign \/ IsForeign(c))
    /\ a_lastKind' = IF CarriesAssistant(c) THEN "assistant" ELSE "other"
    /\ UNCHANGED <<a_pc, a_mode, a_ret, a_err>>
    /\ UNCHANGED frameB

\* astream is exhausted
A_End ==
    /\ a_pc = "streaming"
    /\ a_pc' = "done"
    /\ UNCHANGED <<a_full_output, a_yielded, a_n, a_mode, a_chain, a_last,
                   a_emit, a_foreign, a_lastKind, a_ret, a_err>>
    /\ UNCHANGED frameB

\* astream raises: except Exception yields the apology
A_Fail ==
    /\ a_pc = "streaming"
    /\ a_pc' = "failed"
    /\ a_yielded' = Append(a_yielded, ErrApology("receive"))
    /\ UNCHANGED <<a_full_output, a_n, a_mode, a_chain, a_last, a_emit,
                   a_foreign, a_lastKind, a_ret, a_err>>
    /\ UNCHANGED frameB

\* str(result) of a result that holds no usable text
ReprText == <<"repr">>

\* ainvoke: for msg in reversed(messages_list): the last AIMessage
RECURSIVE LastAi(_)
LastAi(ms) ==
    IF ms = <<>> THEN <<>>
    ELSE IF ms[Len(ms)].kind = "ai" THEN <<ms[Len(ms)]>>
    ELSE LastAi(SubSeq(ms, 1, Len(ms) - 1))

\* what agent.ainvoke can return
A_Results ==
    {c \in Chunks : c.shape \notin {"message", "tuple"}
                     /\ (c.shape = "str" => c.content.str)}

\* ainvoke: the reply text taken from the result; err is the exception
\* raised on the way (a content that is a list has no strip())
A_Extract(res) ==
    IF res.shape = "batch" /\ LastAi(res.msgs) # <<>>
    THEN LET c == LastAi(res.msgs)[1].content IN
         IF c.str THEN [text |-> Strip(c.text), err |-> ""]
         ELSE [text |-> <<>>, err |-> "content"]
    ELSE IF res.shape = "output"
    THEN IF ~res.content.str THEN [text |-> <<>>, err |-> "content"]
         ELSE IF res.content.text # <<>>
         THEN [text |-> Strip(res.content.text), err |-> ""]
         ELSE [text |-> ReprText, err |-> ""]
    ELSE IF res.shape = "str"
    THEN [text |-> Strip(res.content.text), err |-> ""]
    ELSE [text |-> ReprText, err |-> ""]

\* AgentService.ainvoke
A_Invoke(empty, ok, res) ==
    /\ a_pc = "idle"
    /\ a_pc' = "returned"
    /\ IF empty
       THEN a_ret' = <<AskQuestion>> /\ a_err' = ""
       ELSE IF ~ok
       THEN a_ret' = <<ErrApology("graph")>> /\ a_err' = "graph"
       ELSE LET x == A_Extract(res) IN
            /\ a_err' = x.err
            /\ a_ret' = IF x.err = "" THEN <<x.text>>
                        ELSE <<ErrApology(x.err)>>
    /\ UNCHANGED <<a_full_output, a_yielded, a_n, a_mode, a_chain, a_last,
                   a_emit, a_foreign, a_lastKind>>
    /\ UNCHANGED frameB

InitA ==
    /\ sdk = FALSE /\ configOK = FALSE /\ mkdirOK = TRUE
    /\ family = "terse"
    /\ memory_store = None /\ store0 = None
    /\ client = NoClient /\ connected = FALSE /\ agent_session_id = None
    /\ pc = "off" /\ mode = "stream" /\ hasQuery = FALSE
    /\ full_response = <<>> /\ yielded = <<>> /\ ret = <<>> /\ err = ""
    /\ turn = 0 /\ nEvents = 0 /\ attempts = <<>> /\ discCalls = 0
    /\ connectedInTurn = FALSE /\ lastInit = None /\ turnInit = None
    /\ firstYieldStore = "-" /\ savedAtYield = TRUE
    /\ script = 0 /\ resultSeen = FALSE
    /\ chainB = TRUE /\ cleanB = TRUE /\ lastB = <<>>
    /\ a_pc = "idle" /\ a_full_output = <<>> /\ a_yielded = <<>> /\ a_n = 0
    /\ a_mode \in {"cumulative", "incremental"}
    /\ a_chain = TRUE /\ a_last = <<>> /\ a_emit = <<>>
    /\ a_foreign = FALSE /\ a_lastKind = "none"
    /\ a_ret = <<>> /\ a_err = ""
    /\ IdleF
    /\ IdleT
    /\ backend = "langchain" /\ agent_type = "langchain"
    /\ default_type = "langchain" /\ probe = <<>>

NextA ==
    \/ \E empty \in BOOLEAN, ok \in BOOLEAN, res \in A_Results :
          A_Invoke(empty, ok, res)
    \/ \E empty \in BOOLEAN : A_Start(empty)
    \/ \E c \in Chunks : A_Chunk(c)
    \/ A_End
    \/ A_Fail

SpecA == InitA /\ [][NextA]_vars

\* ================================================= _filter_content alone
FilterChars == {"a", " ", NL}
Padding == Strings({" ", NL, "a"}, 1)
FilterInputs ==
    Strings(FilterChars, MaxText) \cup
    {pre \o NoContent \o post : pre \in Padding, post \in Padding}

OffB ==
    /\ sdk = FALSE /\ configOK = FALSE /\ mkdirOK = TRUE
    /\ memory_store = None /\ store0 = None
    /\ client = NoClient /\ connected = FALSE /\ agent_session_id = None
    /\ pc = "off" /\ mode = "stream" /\ hasQuery = FALSE
    /\ full_response = <<>> /\ yielded = <<>> /\ ret = <<>> /\ err = ""
    /\ turn = 0 /\ nEvents = 0 /\ attempts = <<>> /\ discCalls = 0
    /\ connectedInTurn = FALSE /\ lastInit = None /\ turnInit = None
    /\ firstYieldStore = "-" /\ savedAtYield = TRUE
    /\ script = 0 /\ resultSeen = FALSE
    /\ chainB = TRUE /\ cleanB = TRUE /\ lastB = <<>>

\* _filter_content(content)
F_Filter ==
    /\ f_pc = "in"
    /\ f_out' = FilterContent(f_content)
    /\ f_pc' = "once"
    /\ UNCHANGED <<f_content, f_out2, varsA, varsB, varsS, varsT>>

\* _filter_content applied to what it returned
F_Again ==
    /\ f_pc = "once"
    /\ f_out2' = FilterContent(f_out)
    /\ f_pc' = "twice"
    /\ UNCHANGED <<f_content, f_out, varsA, varsB, varsS, varsT>>

IdleS ==
    /\ backend = "none" /\ agent_type = "unset"
    /\ default_type = "langchain" /\ probe = <<>>

InitF ==
    /\ OffB /\ family = "terse" /\ IdleA /\ IdleS /\ IdleT
    /\ f_pc = "in" /\ f_content \in FilterInputs
    /\ f_out = <<>> /\ f_out2 = <<>>

NextF == F_Filter \/ F_Again

SpecF == InitF /\ [][NextF]_vars

\* =============================== create_agent_service and the service calls
AgentTypes == {None, "langchain", "claude", "gpt"}
DefaultTypes == {"langchain", "claude", "gpt"}

SelectBackend_default(t, d) ==
    LET n == IF t = None THEN d ELSE t
    IN  IF n \notin {"langchain", "claude"} THEN d ELSE n

\* create_agent_service: the name that decides which service is built
SelectBackend(t, d) ==
    LET n == IF t = None THEN d ELSE t
    IN  IF n \notin {"langchain", "claude"} THEN "langchain" ELSE n

\* create_agent_service(..., agent_type = t): the service is constructed
CreateAgentService(t) ==
    /\ backend = "none"
    /\ agent_type' = t
    /\ backend' = IF SelectBackend(t, default_type) = "claude"
                  THEN "claude" ELSE "langchain"
    /\ IF SelectBackend(t, default_type) = "claude"
       THEN /\ pc' = "idle"
            /\ sdk' \in BOOLEAN /\ configOK' \in BOOLEAN
            /\ mkdirOK' \in BOOLEAN
            /\ memory_store' \in {None, "S1"}
            /\ store0' = memory_store'
            /\ UNCHANGED varsA
       ELSE /\ a_pc' = "idle"
            /\ a_mode' \in {"cumulative", "incremental"}
            /\ UNCHANGED <<pc, sdk, configOK, mkdirOK, memory_store, store0,
                           a_full_output, a_yielded, a_n, a_chain, a_last,
                           a_emit, a_foreign, a_lastKind, a_ret, a_err>>
    /\ UNCHANGED <<client, connected, agent_session_id, mode, hasQuery,
                   full_response, yielded, ret, err, turn, nEvents, attempts,
                   discCalls, connectedInTurn, lastInit, turnInit,
                   firstYieldStore, savedAtYield, family, script, resultSeen,
                   chainB, cleanB, lastB>>
    /\ UNCHANGED <<varsF, varsT, default_type, probe>>

Interrupt_flagOnly(cl, conn, ok) ==
    IF cl # NoClient /\ conn THEN "true" ELSE "false"

\* ClaudeAgentService.interrupt; ok says whether client.interrupt() returns
\* or raises
Interrupt(cl, conn, ok) ==
    IF cl # NoClient /\ conn THEN (IF ok THEN "true" ELSE "false")
    ELSE "false"

\* ClaudeAgentService.is_available
IsAvailable(s, cl) == s /\ cl # NoClient

\* the attributes AgentService and BaseAgentService define
A_Methods ==
    {"ainvoke", "stream", "is_available", "_convert_messages",
     "_convert_messages_to_unified", "_convert_messages_from_unified"}

\* a call of service.<name>() on an AgentService
A_Call(name) == IF name \in A_Methods THEN "bound" ELSE "raised"

\* interrupt() is called on the Adapter B service, at any point of a turn
B_Interrupt ==
    /\ backend = "claude" /\ pc # "off" /\ probe = <<>>
    /\ \E ok \in BOOLEAN :
         probe' = << "interrupt", Interrupt(client, connected, ok),
                     IF client # NoClient /\ connected
                     THEN (IF ok THEN "sent" ELSE "failed") ELSE "none" >>
    /\ UNCHANGED <<varsB, varsA, varsF, varsT, backend, agent_type,
                   default_type>>

\* is_available() is called on the Adapter B service
B_IsAvailable ==
    /\ backend = "claude" /\ pc # "off" /\ probe = <<>>
    /\ probe' = << "is_available",
                   IF IsAvailable(sdk, client) THEN "true" ELSE "false",
                   "none" >>
    /\ UNCHANGED <<varsB, varsA, varsF, varsT, backend, agent_type,
                   default_type>>

\* interrupt() is called on the Adapter A service
A_Interrupt ==
    /\ backend = "langchain" /\ a_pc # "off" /\ probe = <<>>
    /\ probe' = <<"interrupt", A_Call("interrupt"), "none">>
    /\ UNCHANGED <<varsB, varsA, varsF, varsT, backend, agent_type,
                   default_type>>

\* AgentService.is_available: self.agent is the graph __init__ stored
A_IsAvailable ==
    /\ backend = "langchain" /\ a_pc # "off" /\ probe = <<>>
    /\ probe' = <<"is_available", "true", "none">>
    /\ UNCHANGED <<varsB, varsA, varsF, varsT, backend, agent_type,
                   default_type>>

\* the chunks of the graph followed when the service is used through the
\* factory
BriefChunks ==
    {Chunk("message", <<Msg(k, StrContent(t))>>, ListContent) :
        k \in {"ai", "tool"}, t \in TextsOf("brief")}
    \cup {Chunk("str", <<>>, StrContent(<<"a">>))}

InitS ==
    /\ OffB /\ family = "brief" /\ IdleA /\ IdleF /\ IdleT
    /\ backend = "none" /\ agent_type = "unset"
    /\ default_type \in DefaultTypes /\ probe = <<>>

\* the service is created, then one turn runs on it
NextU ==
    \/ \E t \in AgentTypes : CreateAgentService(t)
    \/ NextB
    \/ \E empty \in BOOLEAN, ok \in BOOLEAN, res \in A_Results :
          A_Invoke(empty, ok, res)
    \/ \E empty \in BOOLEAN : A_Start(empty)
    \/ \E c \in BriefChunks : A_Chunk(c)
    \/ A_End
    \/ A_Fail

\* ... and interrupt() or is_available() is called at some point
NextS ==
    \/ NextU
    \/ B_Interrupt
    \/ B_IsAvailable
    \/ A_Interrupt
    \/ A_IsAvailable

\* a service is created and used for one turn
SpecS == InitS /\ [][NextS]_vars

\* the turn alone, with the event loop always getting its next step: an
\* awaited call returns or raises, and the backend's event sequence is finite
SpecUFair == InitS /\ [][NextU]_vars /\ WF_vars(NextU)

\* ============================================================ the file tools
\* a path argument: absolute or relative, given by its components
Comps == {"w", "o", "d", "l", "f", ".."}
PathInputs == [abs : BOOLEAN, parts : Strings(Comps, MaxPath)]
\* a search_path argument of grep_search and glob_files
SearchPaths == [abs : BOOLEAN, parts : Strings(Comps, MaxSearch)]

Kind(f, p) == IF p \in DOMAIN f THEN f[p] ELSE "none"
IsDir(f, p) == Kind(f, p) = "dir"
IsFile(f, p) == Kind(f, p) \notin {"none", "dir", "link"}
Parent(p) == IF p = <<>> THEN <<>> ELSE SubSeq(p, 1, Len(p) - 1)
Children(f, p) == {q \in DOMAIN f : Len(q) = Len(p) + 1 /\ IsPrefix(p, q)}

RECURSIVE NormFrom(_, _)
NormFrom(cur, parts) ==
    IF parts = <<>> THEN cur
    ELSE IF Head(parts) = ".." THEN NormFrom(Parent(cur), Tail(parts))
    ELSE NormFrom(Append(cur, Head(parts)), Tail(parts))

\* realpath: components are taken left to right, a symlink is replaced by
\* its target, ".." goes to the parent of what has been resolved so far, a
\* component that does not exist is kept
RECURSIVE ResolveFrom(_, _, _)
ResolveFrom(f, cur, parts) ==
    IF parts = <<>> THEN cur
    ELSE IF Head(parts) = ".." THEN ResolveFrom(f, Parent(cur), Tail(parts))
    ELSE LET n == Append(cur, Head(parts)) IN
         IF Kind(f, n) = "link"
         THEN ResolveFrom(f, LinkTarget[n], Tail(parts))
         ELSE ResolveFrom(f, n, Tail(parts))

\* the path normalised by its text alone, symlinks not followed
Resolve_lexical(f, parts) == NormFrom(<<>>, parts)

\* Path(p).resolve() of the absolute path with these components
Resolve(f, parts) == ResolveFrom(f, <<>>, parts)

\* _validate_path(workspace_path, file_path); ok = FALSE is the ValueError
ValidatePath(f, ws, p) ==
    LET workspace == Resolve(f, ws)
        target == IF p.abs THEN Resolve(f, p.parts)
                  ELSE Resolve(f, workspace \o p.parts)
    IN  IF IsPrefix(workspace, target)
        THEN [ok |-> TRUE, path |-> target]
        ELSE [ok |-> FALSE, path |-> <<>>]

\* Path.mkdir(parents=True, exist_ok=True)
MkdirP(f, p) ==
    IF IsDir(f, p) THEN [ok |-> TRUE, fs |-> f]
    ELSE IF Kind(f, p) # "none" THEN [ok |-> FALSE, fs |-> f]
    ELSE IF \E k \in 0..(Len(p) - 1) :
                Kind(f, SubSeq(p, 1, k)) \notin {"none", "dir"}
    THEN [ok |-> FALSE, fs |-> f]
    ELSE LET new == {SubSeq(p, 1, k) : k \in 1..Len(p)} \ DOMAIN f
         IN  [ok |-> TRUE,
              fs |-> [q \in DOMAIN f \cup new |->
                         IF q \in DOMAIN f THEN f[q] ELSE "dir"]]

\* Path.write_text(content) where the parent directory exists
WriteText(f, p, c) ==
    IF IsDir(f, p) THEN [ok |-> FALSE, fs |-> f]
    ELSE [ok |-> TRUE,
          fs |-> [q \in DOMAIN f \cup {p} |-> IF q = p THEN c ELSE f[q]]]

Raised == [kind |-> "raised", items |-> {}]

frameT == <<varsA, varsB, varsF, varsS, varsV, varsX>>

\* the tool's call of _validate_path, as every tool starts
Validated(op, p) ==
    LET v == ValidatePath(fs, Root, p) IN
    /\ t_n < MaxCalls /\ t_n' = t_n + 1
    /\ t_op' = op
    /\ t_rejected' = ~v.ok
    /\ t_valid' = IF v.ok THEN <<v.path>> ELSE <<>>

\* mkdir(workspace_path, dir_path)
T_Mkdir(p) ==
    /\ Validated("mkdir", p)
    /\ LET v == ValidatePath(fs, Root, p)
           m == MkdirP(fs, v.path)
       IN  IF ~v.ok \/ ~m.ok
           THEN fs' = fs /\ t_out' = Raised
           ELSE fs' = m.fs /\ t_out' = [kind |-> "ok", items |-> {}]
    /\ t_read' = {} /\ t_scanned' = {}
    /\ UNCHANGED frameT

\* write_file(workspace_path, file_path, content)
T_WriteFile(p, c) ==
    /\ Validated("write_file", p)
    /\ LET v == ValidatePath(fs, Root, p)
           m == MkdirP(fs, Parent(v.path))
           w == WriteText(m.fs, v.path, c)
       IN  IF ~v.ok \/ ~m.ok
           THEN fs' = fs /\ t_out' = Raised
           ELSE IF ~w.ok
           THEN fs' = m.fs /\ t_out' = Raised
           ELSE fs' = w.fs /\ t_out' = [kind |-> "ok", items |-> {}]
    /\ t_read' = {} /\ t_scanned' = {}
    /\ UNCHANGED frameT

\* read_file(workspace_path, file_path)
T_ReadFile(p) ==
    /\ Validated("read_file", p)
    /\ LET v == ValidatePath(fs, Root, p) IN
       IF ~v.ok \/ ~IsFile(fs, v.path)
       THEN t_out' = Raised /\ t_read' = {}
       ELSE /\ t_out' = [kind |-> "content", items |-> {<<fs[v.path]>>}]
            /\ t_read' = {v.path}
    /\ fs' = fs /\ t_scanned' = {}
    /\ UNCHANGED frameT

\* list_dir(workspace_path, dir_path)
T_ListDir(p) ==
    /\ Validated("list_dir", p)
    /\ LET v == ValidatePath(fs, Root, p) IN
       IF ~v.ok \/ ~IsDir(fs, v.path)
       THEN t_out' = Raised /\ t_read' = {}
       ELSE /\ t_out' = [kind |-> "names",
                         items |-> {<<q[Len(q)]>> : q \in Children(fs, v.path)}]
            /\ t_read' = {v.path}
    /\ fs' = fs /\ t_scanned' = {}
    /\ UNCHANGED frameT

\* ---- _validate_path alone ----
\* the same workspace with its directory and file missing
Fs1 == [q \in DOMAIN Fs0 \ {<<"w", "d">>, <<"w", "f">>} |-> Fs0[q]]

V_Validate ==
    /\ v_pc = "in"
    /\ LET v == ValidatePath(fs, Root, v_path) IN
       /\ v_raised' = ~v.ok
       /\ v_ret' = IF v.ok THEN <<v.path>> ELSE <<>>
    /\ v_pc' = "done"
    /\ UNCHANGED <<v_path, callsT, varsX, varsA, varsB, varsF, varsS>>

InitV ==
    /\ OffB /\ family = "terse"
    /\ IdleA /\ IdleF /\ IdleS /\ NoCalls /\ IdleX
    /\ fs \in {Fs0, Fs1}
    /\ v_pc = "in" /\ v_path \in PathInputs
    /\ v_ret = <<>> /\ v_raised = FALSE

NextV == V_Validate

SpecV == InitV /\ [][NextV]_vars

\* ---- glob.glob(pattern, recursive) over the filesystem ----
\* a glob result is a path as glob spells it: the start directory followed
\* by the components the pattern matched, ".." and symlink names included
Names(f, d) == {q[Len(q)] : q \in Children(f, d)}

\* the start directory and everything below it, symlinks to directories
\* followed (glob's _rlistdir)
RECURSIVE Descend(_, _)
Descend(f, lp) ==
    {lp} \cup
    (IF IsDir(f, Resolve(f, lp))
     THEN UNION {Descend(f, Append(lp, nm)) : nm \in Names(f, Resolve(f, lp))}
     ELSE {})

\* the paths one pattern component matches, from each path of S
GlobStep(f, S, comp, rec) ==
    LET dirs == {lp \in S : IsDir(f, Resolve(f, lp))} IN
    IF comp = "**" /\ rec THEN UNION {Descend(f, lp) : lp \in dirs}
    ELSE IF comp \in {"*", "**"}
    THEN UNION {{Append(lp, nm) : nm \in Names(f, Resolve(f, lp))} : lp \in dirs}
    ELSE IF comp = ".." THEN {Append(lp, comp) : lp \in dirs}
    ELSE {Append(lp, comp) : lp \in {d \in dirs : comp \in Names(f, Resolve(f, d))}}

\* the directories glob lists to match that component
ScanStep(f, S, comp, rec) ==
    LET dirs == {lp \in S : IsDir(f, Resolve(f, lp))} IN
    IF comp = "**" /\ rec
    THEN {Resolve(f, lp) : lp \in
             {x \in UNION {Descend(f, d) : d \in dirs} : IsDir(f, Resolve(f, x))}}
    ELSE IF comp \in {"*", "**"} THEN {Resolve(f, lp) : lp \in dirs}
    ELSE {}

RECURSIVE GlobWalk(_, _, _, _)
GlobWalk(f, S, pat, rec) ==
    IF pat = <<>> THEN [hits |-> S, scans |-> {}]
    ELSE LET r == GlobWalk(f, GlobStep(f, S, Head(pat), rec), Tail(pat), rec)
         IN  [hits |-> r.hits,
              scans |-> r.scans \cup ScanStep(f, S, Head(pat), rec)]

\* pattern.lstrip("./") on a pattern given by its components
RECURSIVE PatStrip(_)
PatStrip(pat) ==
    IF pat # <<>> /\ Head(pat) = ".." THEN PatStrip(Tail(pat)) ELSE pat

Patterns ==
    {<<"*">>, <<"**">>, <<"f">>, <<"l", "*">>, <<"..", "*">>,
     <<"d", "..", "..", "o", "*">>}

\* the regular expression: one that does not compile, one matching every
\* line, or one matching the lines of one content
Regexes == {"bad", "any", "x", "q"}
Matches(rx, c) == rx = "any" \/ rx = c

\* path relative to the workspace, as relative_to(workspace) spells it
RelTo(ws, lp) == SubSeq(lp, Len(ws) + 1, Len(lp))

\* the containment check made on each glob result
InWorkspace(f, ws, lp) == IsPrefix(Resolve(f, ws), Resolve(f, lp))

\* grep_search(workspace_path, search_path, pattern, file_pattern,
\*             recursive=rec), max_results at its default
T_GrepSearch(p, rx, fpat, rec) ==
    /\ Validated("grep_search", p)
    /\ LET v == ValidatePath(fs, Root, p)
           full == (IF rec THEN <<"**">> ELSE <<>>) \o PatStrip(fpat)
           g == GlobWalk(fs, {v.path}, full, rec)
           matched_files == {lp \in g.hits : /\ IsFile(fs, Resolve(fs, lp))
                                            /\ InWorkspace(fs, Root, lp)}
           results == {<<RelTo(Resolve(fs, Root), lp), fs[Resolve(fs, lp)]>> :
                          lp \in {m \in matched_files :
                                     Matches(rx, fs[Resolve(fs, m)])}}
       IN  IF ~v.ok \/ ~IsDir(fs, v.path) \/ rx = "bad"
           THEN /\ t_out' = [kind |-> "error", items |-> {}]
                /\ t_read' = {} /\ t_scanned' = {}
           ELSE /\ t_scanned' = g.scans
                /\ t_read' = {Resolve(fs, lp) : lp \in matched_files}
                /\ t_out' = IF matched_files = {}
                            THEN [kind |-> "info_nofiles", items |-> {}]
                            ELSE IF results = {}
                            THEN [kind |-> "info_nomatch", items |-> {}]
                            ELSE [kind |-> "results", items |-> results]
    /\ fs' = fs
    /\ UNCHANGED frameT

\* glob_files(workspace_path, search_path, pattern, recursive=rec,
\*            include_dirs=incd, include_files=incf)
T_GlobFiles(p, pat, rec, incd, incf) ==
    /\ Validated("glob_files", p)
    /\ LET v == ValidatePath(fs, Root, p)
           g == GlobWalk(fs, {v.path}, PatStrip(pat), rec)
           matched_paths ==
               {RelTo(Resolve(fs, Root), lp) :
                   lp \in {h \in g.hits :
                              /\ InWorkspace(fs, Root, h)
                              /\ \/ incd /\ IsDir(fs, Resolve(fs, h))
                                 \/ incf /\ IsFile(fs, Resolve(fs, h))}}
       IN  IF ~v.ok \/ ~IsDir(fs, v.path)
           THEN /\ t_out' = [kind |-> "list", items |-> {}]
                /\ t_scanned' = {}
           ELSE /\ t_out' = [kind |-> "list", items |-> matched_paths]
                /\ t_scanned' = g.scans
    /\ t_read' = {}
    /\ fs' = fs
    /\ UNCHANGED frameT

FileContents == {"x", "z"}

InitT ==
    /\ OffB /\ family = "terse"
    /\ IdleA /\ IdleF /\ IdleS /\ IdleT

NextT ==
    \/ \E p \in PathInputs : T_Mkdir(p)
    \/ \E p \in PathInputs, c \in FileContents : T_WriteFile(p, c)
    \/ \E p \in PathInputs : T_ReadFile(p)
    \/ \E p \in PathInputs : T_ListDir(p)
    \/ \E p \in SearchPaths, rx \in Regexes, fpat \in Patterns, rec \in BOOLEAN :
           T_GrepSearch(p, rx, fpat, rec)
    \/ \E p \in SearchPaths, pat \in Patterns, rec, incd, incf \in BOOLEAN :
           T_GlobFiles(p, pat, rec, incd, incf)

SpecT == InitT /\ [][NextT]_vars

\* ---- grep_search: searching the matched files ----
MatchedFilesCap == 100
DefaultMaxResults == 100

\* a matched file: it can be opened or not, and each of its lines matches
\* the regular expression or not
GrepFiles ==
    {[ok |-> TRUE, lines |-> l] : l \in Strings(BOOLEAN, MaxLines)}
        \cup {[ok |-> FALSE, lines |-> <<>>]}

\* glob's results: a few files in any order, the same file twice included,
\* or many files alike around the cap
MatchedLists ==
    Strings(GrepFiles, MaxFiles) \cup
    {[i \in 1..n |-> file] :
        n \in (MatchedFilesCap - 1)..(MatchedFilesCap + MaxFiles),
        file \in GrepFiles}

MaxResults == 0..MaxRes \cup {DefaultMaxResults}

\* what happens before the files are searched
GrepPre == {"ok", "escape", "missing", "notdir", "badregex", "globfail"}

\* the loop over the lines of one file: acc = [records, scanned, opened]
RECURSIVE SearchLines_whole(_, _, _, _, _)
SearchLines_whole(lines, line_num, i, max, acc) ==
    IF line_num > Len(lines) THEN acc
    ELSE SearchLines_whole(lines, line_num + 1, i, max,
             [records |-> IF lines[line_num]
                          THEN Append(acc.records, <<i, line_num>>)
                          ELSE acc.records,
              scanned |-> acc.scanned + 1,
              opened |-> acc.opened])

RECURSIVE SearchLines(_, _, _, _, _)
SearchLines(lines, line_num, i, max, acc) ==
    IF line_num > Len(lines) \/ Len(acc.records) >= max THEN acc
    ELSE SearchLines(lines, line_num + 1, i, max,
             [records |-> IF lines[line_num]
                          THEN Append(acc.records, <<i, line_num>>)
                          ELSE acc.records,
              scanned |-> acc.scanned + 1,
              opened |-> acc.opened])

\* one round of the loop over the files; once max_results records are
\* collected the loop breaks, so every later round does nothing
SearchOne(files, i, max, acc) ==
    IF Len(acc.records) >= max \/ ~files[i].ok THEN acc
    ELSE SearchLines(files[i].lines, 1, i, max,
             [records |-> acc.records, scanned |-> acc.scanned,
              opened |-> Append(acc.opened, i)])

\* the rounds lo..hi in their order
RECURSIVE SearchRange(_, _, _, _, _)
SearchRange(files, lo, hi, max, acc) ==
    IF lo > hi THEN acc
    ELSE IF lo = hi THEN SearchOne(files, lo, max, acc)
    ELSE LET mid == (lo + hi) \div 2
             first == SearchRange(files, lo, mid, max, acc)
         IN  IF Len(first.records) >= max THEN first
             ELSE SearchRange(files, mid + 1, hi, max, first)

\* the loop over matched_files[:100]
SearchFiles(files, max) ==
    SearchRange(files, 1,
                IF Len(files) < MatchedFilesCap THEN Len(files)
                ELSE MatchedFilesCap,
                max, [records |-> <<>>, scanned |-> 0, opened |-> <<>>])

\* the list grep_search returns after the search
GrepReturn(results, matched_files) ==
    IF results = <<>> /\ matched_files # <<>>
    THEN [kind |-> "info_nomatch", records |-> <<>>,
          files_searched |-> Len(matched_files)]
    ELSE IF matched_files = <<>>
    THEN [kind |-> "info_nofiles", records |-> <<>>, files_searched |-> 0]
    ELSE [kind |-> "results", records |-> results, files_searched |-> 0]

G_Search ==
    /\ g_pc = "in"
    /\ LET r == SearchFiles(g_files, g_max)
       IN  IF g_pre # "ok"
           THEN /\ g_out' = [kind |-> "error", records |-> <<>>,
                             files_searched |-> 0]
                /\ g_opened' = <<>> /\ g_scanned' = 0
           ELSE /\ g_out' = GrepReturn(r.records, g_files)
                /\ g_opened' = r.opened /\ g_scanned' = r.scanned
    /\ g_pc' = "done"
    /\ UNCHANGED <<g_pre, g_files, g_max, callsT, varsV, varsM, varsC,
                   varsP, varsA, varsB, varsF, varsS>>

InitG ==
    /\ OffB /\ family = "terse"
    /\ IdleA /\ IdleF /\ IdleS /\ fs = Fs0 /\ NoCalls /\ IdleV /\ IdleM
    /\ IdleC /\ IdleP
    /\ g_pc = "in" /\ g_pre \in GrepPre
    /\ g_files \in MatchedLists /\ g_max \in MaxResults
    /\ g_out = NoList /\ g_opened = <<>> /\ g_scanned = 0

NextG == G_Search

SpecG == InitG /\ [][NextG]_vars

\* ================================================================= Message
\* a Message is [role, content, metadata]; a plain mapping is a function
\* from its keys; metadata is a set of <<key, value>> pairs
Roles == {"system", "user", "assistant", "tool"}
Metadatas == {{}, {<<"k", "v">>}, {<<"k", "v">>, <<"n", "1">>}}
Messages ==
    [role : Roles, content : Strings({"a", " "}, MaxLen), metadata : Metadatas]

\* data.get(key, default)
Get(data, key, default) == IF key \in DOMAIN data THEN data[key] ELSE default

\* Message.to_langchain / Message.from_langchain
ToLangchain(m) ==
    [cls |-> IF m.role = "system" THEN "SystemMessage"
             ELSE IF m.role = "user" THEN "HumanMessage"
             ELSE IF m.role = "assistant" THEN "AIMessage"
             ELSE "HumanMessage",
     content |-> m.content]

FromLangchain(msg) ==
    [role |-> IF msg.cls = "SystemMessage" THEN "system"
              ELSE IF msg.cls = "HumanMessage" THEN "user"
              ELSE IF msg.cls = "AIMessage" THEN "assistant"
              ELSE "user",
     content |-> msg.content,
     metadata |-> {}]

\* Message.to_claude_format / Message.to_dict
ToClaudeFormat(m) == [role |-> m.role, content |-> m.content]

ToDict(m) == [role |-> m.role, content |-> m.content, metadata |-> m.metadata]

\* Message.from_dict
FromDict_noMetadata(data) ==
    [role |-> Get(data, "role", "user"),
     content |-> Get(data, "content", <<>>),
     metadata |-> {}]

FromDict(data) ==
    [role |-> Get(data, "role", "user"),
     content |-> Get(data, "content", <<>>),
     metadata |-> Get(data, "metadata", {})]

restM == <<m_msg, varsG, varsC, varsP, callsT, varsV, varsA, varsB, varsF, varsS>>

M_Dict ==
    /\ m_pc = "on" /\ m_dict = <<>>
    /\ m_dict' = <<FromDict(ToDict(m_msg))>>
    /\ UNCHANGED <<m_pc, m_lc, m_cl, restM>>

M_Langchain ==
    /\ m_pc = "on" /\ m_lc = <<>>
    /\ m_lc' = <<FromLangchain(ToLangchain(m_msg))>>
    /\ UNCHANGED <<m_pc, m_dict, m_cl, restM>>

M_Claude ==
    /\ m_pc = "on" /\ m_cl = <<>>
    /\ m_cl' = <<FromDict(ToClaudeFormat(m_msg))>>
    /\ UNCHANGED <<m_pc, m_dict, m_lc, restM>>

InitM ==
    /\ OffB /\ family = "terse"
    /\ IdleA /\ IdleF /\ IdleS /\ fs = Fs0 /\ NoCalls /\ IdleV /\ IdleG
    /\ IdleC /\ IdleP
    /\ m_pc = "on" /\ m_msg \in Messages
    /\ m_dict = <<>> /\ m_lc = <<>> /\ m_cl = <<>>

NextM == M_Dict \/ M_Langchain \/ M_Claude

SpecM == InitM /\ [][NextM]_vars

\* ======================================== concurrent turns on one Session Store
\* each request builds its own ClaudeAgentService; the services of one
\* (user_id, app_id) share only the Session Store. A turn is followed through
\* the steps that read or write the store, each ending at an await.
Procs == 1..MaxProcs

\* the session id the backend gives its k-th new session
SessionIds == <<"S1", "S2", "S3", "S4">>

restC == <<varsG, varsM, varsP, callsT, varsV, varsA, varsB, varsF, varsS>>

InFlight(p) == c_pc[p] \notin {"idle", "done"}

StoreWrite_ifNewer(st, ev) ==
    IF c_issued # <<>> /\ ev.sid = c_issued[Len(c_issued)]
    THEN StoreOnInit(st, ev) ELSE st

\* save_session_id of the init branch, as the store receives it
StoreWrite(st, ev) == StoreOnInit(st, ev)

\* _connect: get_session_id, then connect
C_Connect(p) ==
    /\ c_pc[p] = "idle"
    /\ c_pc' = [c_pc EXCEPT ![p] = "connected"]
    /\ c_resume' = [c_resume EXCEPT ![p] = FirstResume(c_store)]
    /\ c_serial' = (c_serial /\ \A q \in Procs \ {p} : ~InFlight(q))
    /\ UNCHANGED <<c_sid, c_store, c_issued, c_writes, restC>>

\* the init event of the turn arrives: self.agent_session_id = session_id
C_Init(p) ==
    /\ c_pc[p] = "connected"
    /\ LET ev == InitEv(SessionIds[Len(c_issued) + 1]) IN
       /\ c_sid' = [c_sid EXCEPT ![p] = SessionOnInit(c_sid[p], ev)]
       /\ c_issued' = Append(c_issued, ev.sid)
    /\ c_pc' = [c_pc EXCEPT ![p] = "init"]
    /\ UNCHANGED <<c_resume, c_store, c_writes, c_serial, restC>>

\* await memory_store.save_session_id(...) completes
C_Save(p) ==
    /\ c_pc[p] = "init"
    /\ c_store' = StoreWrite(c_store, InitEv(c_sid[p]))
    /\ c_writes' = Append(c_writes, p)
    /\ c_pc' = [c_pc EXCEPT ![p] = "saved"]
    /\ UNCHANGED <<c_resume, c_sid, c_issued, c_serial, restC>>

\* the rest of the turn up to its return
C_End(p) ==
    /\ c_pc[p] = "saved"
    /\ c_pc' = [c_pc EXCEPT ![p] = "done"]
    /\ UNCHANGED <<c_resume, c_sid, c_store, c_issued, c_writes, c_serial,
                   restC>>

InitC ==
    /\ OffB /\ family = "terse"
    /\ IdleA /\ IdleF /\ IdleS /\ fs = Fs0 /\ NoCalls /\ IdleV
    /\ IdleG /\ IdleM /\ IdleP
    /\ c_pc = [p \in Procs |-> "idle"]
    /\ c_resume = [p \in Procs |-> None]
    /\ c_sid = [p \in Procs |-> None]
    /\ c_store \in {None, "S0"}
    /\ c_issued = <<>> /\ c_writes = <<>> /\ c_serial = TRUE

NextC ==
    \E p \in Procs : C_Connect(p) \/ C_Init(p) \/ C_Save(p) \/ C_End(p)

SpecC == InitC /\ [][NextC]_vars

\* ============================= one event sequence through ainvoke and stream
\* the receive loops of ainvoke and of stream are run side by side on the
\* same events of one turn, up to the result event or the end of the events
EmptyResult == ResultEv(<< <<>> >>)

PairedEvents(f) == Events(f) \cup {EmptyResult}

restP == <<varsG, varsM, varsC, callsT, varsV, varsA, varsF, varsS>>
P_Receive(ev) ==
    /\ p_pc = "receive" /\ p_n < EventsOf(family)
    /\ LET i == OnEvent("invoke", p_invoke, ev)
           s == OnEvent("stream", p_stream, ev)
       IN  /\ p_invoke' = i.full
           /\ p_stream' = s.full
           /\ p_yielded' = p_yielded \o s.out
           /\ p_ret' = IF AfterEvent(ev) = "receive" THEN <<>>
                       ELSE <<InvokeReturn(i.full)>>
    /\ p_pc' = IF AfterEvent(ev) = "receive" THEN "receive" ELSE "done"
    /\ p_n' = p_n + 1
    /\ p_ev' = <<ev>>
    /\ UNCHANGED <<restP, varsB>>

\* receive_response() ends without a result event
P_ReceiveEnd ==
    /\ p_pc = "receive"
    /\ p_pc' = "done"
    /\ p_ret' = <<InvokeReturn(p_invoke)>>
    /\ p_ev' = <<>>
    /\ UNCHANGED <<p_n, p_invoke, p_stream, p_yielded, restP, varsB>>

InitP ==
    /\ OffB /\ family \in {"free", "greeting"}
    /\ IdleA /\ IdleF /\ IdleS /\ fs = Fs0 /\ NoCalls /\ IdleV
    /\ IdleG /\ IdleM /\ IdleC
    /\ p_pc = "receive" /\ p_n = 0 /\ p_ev = <<>> /\ p_invoke = <<>>
    /\ p_stream = <<>> /\ p_yielded = <<>> /\ p_ret = <<>>

NextP == (\E ev \in PairedEvents(family) : P_Receive(ev)) \/ P_ReceiveEnd

SpecP == InitP /\ [][NextP]_vars

\* ============================================================== claims
InTurn == pc # "idle"

\* C1: every turn that reached a successful connect attempts a disconnect
\* before it ends, on every exit path, so that no connection is open
\* (_connected true) once a turn has ended.
C1_DisconnectOnEveryExit ==
    TurnEnded => /\ (connectedInTurn => discCalls >= 1)
                 /\ ~connected

\* C2: a failed first connect (made with the stored token) is followed by
\* exactly one further connect, made without a resume token; when that one
\* fails too the error reaches the caller as the apology; no turn makes more
\* than two connect attempts.
C2_SingleRetry ==
    [][ /\ Len(attempts') <= 2
        /\ (pc = "connect" /\ attempts' # attempts) =>
              /\ attempts' = <<memory_store>>
              /\ pc' = IF connected' THEN "check" ELSE "retry"
        /\ pc = "retry" =>
              /\ attempts' = <<attempts[1], None>>
              /\ pc' = IF connected' THEN "check" ELSE "except"
              /\ ~connected' => client' = NoClient /\ err' = "connect"
        /\ pc \notin {"connect", "retry"} => attempts' = attempts \/ pc = "idle"
        /\ pc = "except" =>
              IF mode = "invoke" THEN ret' = <<ErrApology(err)>>
              ELSE yielded' = Append(yielded, ErrApology(err))
      ]_vars

C2_Witness ==
    /\ TurnEnded /\ mode = "invoke"
    /\ attempts = <<"S1", None>> /\ ~connectedInTurn
    /\ ret = <<ErrApology("connect")>>

\* C3: the session id of an init event is in the Session Store before any
\* later event is processed or any later fragment is yielded, so a turn that
\* fails after the init event leaves the id in the store.
C3_InitSavedAtOnce ==
    /\ savedAtYield
    /\ (InTurn \/ TurnEnded) /\ turnInit # None =>
          GetSessionId(memory_store) = turnInit

C3_Witness ==
    /\ pc = "except" /\ err = "receive" /\ mode = "stream"
    /\ turnInit = "S2" /\ store0 # "S2" /\ yielded # <<>>

\* C4: over serialized turns the Session Store holds its initial value until
\* an init event carries a session id, and from then on the id of the most
\* recently processed init event; a rejected resume neither clears nor
\* deletes it.
C4_StoreIsLastInit ==
    GetSessionId(memory_store) = IF lastInit = None THEN store0 ELSE lastInit

C4_Witness ==
    /\ turn = 2 /\ pc = "check" /\ attempts = <<"S1", None>>
    /\ store0 = None /\ lastInit = "S1" /\ memory_store = "S1"

\* C5: every turn reads the session id from the Session Store and uses it as
\* the resume token of its first connect attempt; no turn goes on with a
\* connection left over from an earlier turn.
C5_FreshConnectEveryTurn ==
    pc = "check" => Len(attempts) >= 1 /\ attempts[1] = memory_store

\* C7: the stream over [init(S1), assistant("Hello"), assistant("Hello world"),
\* result("Hello world!")] yields "Hello", " world", "!" and nothing else, and
\* S1 is in the Session Store when the first fragment is yielded.
ScenarioYield == << Hello, <<" ", "w", "o", "r", "l", "d">>, <<"!">> >>

C7_Scenario ==
    /\ (mode = "stream" /\ pc = "receive" /\ script = nEvents /\ script >= 1)
          => yielded = SubSeq(ScenarioYield, 1, script - 1)
    /\ (mode = "stream" /\ script = Len(Scenario))
          => yielded = ScenarioYield /\ firstYieldStore = "S1"

C7_Witness ==
    TurnEnded /\ mode = "stream" /\ script = Len(Scenario) /\ store0 = "S2"

\* C8 (as amended): for assistant texts c1..cn, each a prefix-extension of
\* the previous, the stream's fragments concatenate to cn whenever no forward
\* difference has an empty or whitespace-only line or is the "(no content)"
\* sentinel; no fragment is empty.
C8_ForwardDifferenceFiltered ==
    (mode = "stream" /\ pc = "receive") =>
        /\ (chainB => full_response = lastB)
        /\ (chainB /\ cleanB => Flatten(yielded) = lastB)
        /\ \A i \in 1..Len(yielded) : yielded[i] # <<>>

C8_Witness ==
    /\ mode = "stream" /\ pc = "receive" /\ chainB /\ cleanB
    /\ Len(yielded) = 2 /\ Len(lastB) = 2

\* C8 as stated: the fragments concatenate to cn for every prefix chain.
C8_ForwardDifferenceExact ==
    (mode = "stream" /\ pc = "receive" /\ chainB) => Flatten(yielded) = lastB

\* C6: when the assistant strings the graph emits are cumulative, each a
\* prefix-extension of the previous, the fragments of Adapter A's stream
\* concatenate to the last string, and no fragment is empty.
C6_ForwardDifference ==
    a_pc \in {"streaming", "done"} =>
        /\ (a_chain /\ ~a_foreign) => Flatten(a_yielded) = a_last
        /\ \A i \in 1..Len(a_yielded) : a_yielded[i] # <<>>

C6_Witness ==
    /\ a_pc = "done" /\ a_chain /\ ~a_foreign /\ a_n = 3
    /\ Len(a_yielded) = 2 /\ Len(a_last) = 2

\* C9: whether the graph emits cumulative contents or incremental chunks of
\* the assistant text, the fragments repeat no text and concatenate to the
\* text the graph produced.
C9_ModeIndependent ==
    [][ (a_pc = "streaming" /\ a_n' = a_n + 1 /\ ~a_foreign') =>
            IF a_mode = "cumulative"
            THEN Flatten(a_yielded') = a_last'
            ELSE Flatten(a_yielded') = Flatten(a_yielded) \o a_emit'
      ]_vars

\* C10: a chunk that holds no assistant message (only user, system or tool
\* messages) adds no fragment and leaves the accumulated content as it is.
C10_OnlyAssistantText ==
    [][ (a_pc = "streaming" /\ a_n' = a_n + 1 /\ a_lastKind' = "other") =>
            UNCHANGED <<a_yielded, a_full_output>>
      ]_vars

\* ---- lines of a text that is not empty
LinesOf(t) == IF t = <<>> THEN <<>> ELSE Split(t)

OnlyWhiteSpace(l) == \A j \in 1..Len(l) : l[j] \in WhiteSpace

NoBlankLine(t) ==
    \A i \in 1..Len(LinesOf(t)) : ~OnlyWhiteSpace(LinesOf(t)[i])

NoSentinelLine(t) ==
    \A i \in 1..Len(LinesOf(t)) : Strip(LinesOf(t)[i]) # NoContent

\* C11: the content filter is idempotent: filtering the filter's output
\* gives that output again, for every input text.
C11_FilterIdempotent == f_pc = "twice" => f_out2 = f_out

C11_Witness ==
    /\ f_pc = "twice" /\ f_out # <<>> /\ f_out # f_content
    /\ Len(Split(f_content)) = 3 /\ Len(Split(f_out)) = 2

ErrKinds == {"store", "config", "connect", "query", "receive", "disconnect"}

IsErrApology(t) == \E e \in ErrKinds : t = ErrApology(e)

ErrApologyCount(ys) == Cardinality({i \in 1..Len(ys) : IsErrApology(ys[i])})

\* C13: ainvoke of either adapter never raises: it returns one text, which is
\* the apology carrying the error when a step of the turn failed (store read,
\* client construction, connect, query, event receipt, graph invocation); a
\* failed workspace setup does not stop the turn; without the SDK Adapter B
\* returns the fixed apology and attempts no connection.
C13_InvokeFailsSoft ==
    /\ (backend = "claude" /\ TurnEnded /\ mode = "invoke") =>
          /\ Len(ret) = 1
          /\ err # "" => ret = <<ErrApology(err)>>
          /\ ~sdk => ret = <<SdkApology>> /\ attempts = <<>> /\ ~connected
    /\ (backend = "langchain" /\ a_pc = "returned") =>
          /\ Len(a_ret) = 1
          /\ a_err # "" => a_ret = <<ErrApology(a_err)>>

C13_Witness ==
    /\ backend = "claude" /\ TurnEnded /\ mode = "invoke" /\ ~mkdirOK
    /\ err = "receive" /\ connectedInTurn /\ discCalls = 1 /\ connected
    /\ ret = <<ErrApology("receive")>>

\* C14: a stream of either adapter ends; when the backend failed during the
\* turn exactly one apology fragment was yielded, as the last fragment; when
\* the turn completed without failure no apology fragment was yielded.
C14_StreamEnds ==
    /\ [](/\ (backend = "claude" /\ TurnEnded /\ mode = "stream") =>
                IF err # ""
                THEN /\ yielded # <<>>
                     /\ yielded[Len(yielded)] = ErrApology(err)
                     /\ ErrApologyCount(yielded) = 1
                ELSE ErrApologyCount(yielded) = 0
          /\ (backend = "langchain" /\ a_pc = "failed") =>
                /\ a_yielded # <<>>
                /\ IsErrApology(a_yielded[Len(a_yielded)])
                /\ ErrApologyCount(a_yielded) = 1
          /\ (backend = "langchain" /\ a_pc \in {"done", "asked"}) =>
                ErrApologyCount(a_yielded) = 0)
    /\ (pc \notin {"off", "idle"}) ~> (pc = "idle")
    /\ (a_pc = "streaming") ~> (a_pc \in {"done", "failed"})

C14_Witness ==
    /\ backend = "claude" /\ TurnEnded /\ mode = "stream"
    /\ err = "receive" /\ Len(yielded) = 2
    /\ yielded[1] = <<"a">> /\ yielded[2] = ErrApology("receive")

\* C15: interrupt() of Adapter B never raises; it answers true only when a
\* connection is active and the signal was sent without error, false
\* whenever no connection is active (fresh service, after the disconnect,
\* after a failed connect, without the SDK), and leaves the connection flag,
\* the client and the Session Store as they were.
C15_Interrupt ==
    [][ (backend = "claude" /\ probe = <<>> /\ probe' # <<>>
         /\ probe'[1] = "interrupt") =>
            /\ probe'[2] \in {"true", "false"}
            /\ probe'[2] = "true" =>
                   connected /\ client # NoClient /\ probe'[3] = "sent"
            /\ (~connected \/ client = NoClient \/ ~sdk) =>
                   probe'[2] = "false"
            /\ UNCHANGED <<connected, client, memory_store>>
      ]_vars

C15_Witness ==
    /\ backend = "claude" /\ pc = "receive" /\ connected
    /\ probe = <<"interrupt", "true", "sent">>

\* C16: interrupt() is part of the service contract of both backends, and on
\* Adapter A it answers false, in every state and without raising.
C16_InterruptOnA ==
    (backend = "langchain" /\ probe # <<>> /\ probe[1] = "interrupt") =>
        probe[2] = "false"

\* C17: is_available() answers true exactly when the backend's dependencies
\* are present and, for Adapter B, a client can be constructed: the answer is
\* the same before the first turn and after a turn has connected.
C17_IsAvailable ==
    (probe # <<>> /\ probe[1] = "is_available") =>
        IF backend = "claude"
        THEN (probe[2] = "true") <=> (sdk /\ configOK)
        ELSE probe[2] = "true"

\* C18: create_agent_service takes the configured default when no backend is
\* named; the name "claude" selects Adapter B and every other name, an
\* unrecognized one included, selects Adapter A; the selection never fails.
C18_Selection ==
    agent_type # "unset" =>
        LET name == IF agent_type = None THEN default_type ELSE agent_type
        IN  backend = IF name = "claude" THEN "claude" ELSE "langchain"

C18_Witness ==
    /\ agent_type = "gpt" /\ default_type = "claude"
    /\ backend = "langchain" /\ a_pc = "idle"

\* a path with no ".." component that passes through no symlink: the
\* kernel lands exactly where the path says
Plain(f, p) ==
    \A k \in 1..Len(p) : p[k] # ".." /\ Kind(f, SubSeq(p, 1, k)) # "link"

\* C19: for every relative or absolute path input, with ".." components,
\* symlinked components or an absolute path outside the root,
\* _validate_path either returns a path that is the root or a descendant of
\* the root, with nothing left to normalise in it, or fails with the
\* path-escape error; it never returns a path outside the root.
C19_Containment ==
    v_pc = "done" =>
        IF v_raised THEN v_ret = <<>>
        ELSE /\ v_ret # <<>>
             /\ IsPrefix(Root, v_ret[1]) /\ Plain(fs, v_ret[1])

C19_Witness ==
    /\ v_pc = "done" /\ fs = Fs0
    /\ v_path = [abs |-> FALSE, parts |-> <<"l", "f">>] /\ v_raised

Inside(q) == IsPrefix(Root, q)

\* the entries a step created, removed or modified
Changed == {q \in DOMAIN fs \cup DOMAIN fs' : Kind(fs, q) # Kind(fs', q)}

\* the entries the result of the last call names
Returned ==
    IF t_out'.kind = "names"
    THEN {t_valid'[1] \o nm : nm \in t_out'.items}
    ELSE IF t_out'.kind = "list"
    THEN {Resolve(fs', Root \o rel) : rel \in t_out'.items}
    ELSE IF t_out'.kind = "results"
    THEN {Resolve(fs', Root \o r[1]) : r \in t_out'.items}
    ELSE {}

\* what a call changes, opens itself and returns stays in the workspace,
\* and a rejected call changes nothing
C20_Effects ==
    /\ \A q \in Changed \cup t_read' \cup Returned : Inside(q)
    /\ t_rejected' => fs' = fs

C20_EffectsContained == [][C20_Effects]_vars

\* C20: over any sequence of calls of the six tools, no entry outside the
\* workspace root is created, modified, read or returned, the directories
\* listed while a file pattern is expanded included, and a call whose path
\* escapes the root leaves the filesystem unchanged.
C20_Containment ==
    [][C20_Effects /\ \A q \in t_scanned' : Inside(q)]_vars

\* the length of the list grep_search returned
ListLen(out) ==
    IF out.kind = "results" THEN Len(out.records)
    ELSE IF out.kind = "none" THEN 0 ELSE 1

\* grep_search never returns an empty list, and a search that found
\* nothing to report tells "no file matched the file pattern" from "no line
\* matched" by the kind of its one record
C21_Kinds ==
    g_pc = "done" =>
        /\ ListLen(g_out) >= 1
        /\ (g_pre = "ok" /\ g_files = <<>>) => g_out.kind = "info_nofiles"
        /\ (g_pre = "ok" /\ g_opened # <<>> /\ g_out.kind # "results")
               => g_out.kind = "info_nomatch"
        /\ g_out.kind = "info_nofiles" => g_files = <<>>

\* C21: grep_search never returns an empty list: when files were searched
\* and nothing matched it returns one informational record that reports no
\* matches and the number of files searched, and when no file matched the
\* file pattern a different informational record.
C21_GrepNeverEmpty ==
    /\ C21_Kinds
    /\ (g_pc = "done" /\ g_out.kind = "info_nomatch" /\ g_opened # <<>>)
           => g_out.files_searched = Len(g_opened)

\* the lines of the opened files up to the line of the last record
RECURSIVE LinesIn(_, _, _, _)
LinesIn(files, opened, lo, hi) ==
    IF lo > hi THEN 0
    ELSE IF lo = hi THEN Len(files[opened[lo]].lines)
    ELSE LET mid == (lo + hi) \div 2 IN
         LinesIn(files, opened, lo, mid) + LinesIn(files, opened, mid + 1, hi)

LinesUpTo(files, opened, last) ==
    LinesIn(files, opened, 1, Len(opened) - 1) + last[2]

\* C22: for every call the number of match records returned never exceeds
\* max_results, the number of files whose content is searched never exceeds
\* the matched-file cap, and scanning stops as soon as max_results records
\* have been collected: no line is tried and no file opened after that.
C22_Caps ==
    (g_pc = "done" /\ g_pre = "ok") =>
        LET n == Len(g_out.records) IN
        /\ n <= g_max
        /\ Len(g_opened) <= MatchedFilesCap
        /\ \A k \in 1..Len(g_opened) : g_opened[k] <= MatchedFilesCap
        /\ g_max = 0 => g_opened = <<>> /\ g_scanned = 0
        /\ (n = g_max /\ n > 0) =>
               /\ g_opened[Len(g_opened)] = g_out.records[n][1]
               /\ g_scanned = LinesUpTo(g_files, g_opened, g_out.records[n])

C22_Witness ==
    /\ g_pc = "done" /\ g_pre = "ok"
    /\ Len(g_files) > MatchedFilesCap /\ Len(g_opened) = MatchedFilesCap
    /\ g_max = DefaultMaxResults /\ Len(g_out.records) = g_max

\* C23: for every Message m with role system, user or assistant,
\* from_dict(to_dict(m)) equals m, role, content and metadata, and the way
\* through either backend-native form, to_langchain then from_langchain or
\* to_claude_format then from_dict, keeps role and content exactly and
\* drops the metadata.
C23_RoundTrip ==
    m_msg.role \in {"system", "user", "assistant"} =>
        /\ m_dict # <<>> => m_dict[1] = m_msg
        /\ \A r \in {m_lc, m_cl} :
               r # <<>> => /\ r[1].role = m_msg.role
                           /\ r[1].content = m_msg.content
                           /\ r[1].metadata = {}

C23_Witness ==
    /\ m_msg.role = "assistant" /\ m_msg.metadata # {} /\ m_msg.content # <<>>
    /\ m_dict # <<>> /\ m_lc # <<>> /\ m_cl # <<>>

\* C24: the result event ends the turn: once it is processed the receive
\* loop has stopped, and no later step of the turn, a failing disconnect
\* included, adds, removes or replaces output text or writes to the Session
\* Store; the text returned is the one built up to the result event. A
\* turn that fails before any event was received ends with the apology.
C24_ResultIsFinal ==
    [][ /\ resultSeen => pc \in {"disconnect", "idle"}
        /\ (resultSeen /\ pc # "idle") =>
               /\ yielded' = yielded
               /\ full_response' = full_response
               /\ memory_store' = memory_store
               /\ pc' = "idle"
               /\ ret' = IF mode = "invoke"
                         THEN <<InvokeReturn(full_response)>> ELSE <<>>
        /\ (pc # "idle" /\ pc' = "idle" /\ err' # "" /\ nEvents' = 0) =>
               IF mode' = "invoke" THEN ret' = <<ErrApology(err')>>
               ELSE yielded' = <<ErrApology(err')>>
      ]_vars

\* a turn whose disconnect failed after the result event, its text intact
C24_Witness ==
    /\ TurnEnded /\ resultSeen /\ connected /\ discCalls = 1
    /\ mode = "invoke" /\ ret = <<InvokeReturn(full_response)>>
    /\ full_response # <<>>

\* the steps of a turn in the order of the lifecycle; "check" is CONNECTED,
\* "except" the error outcome
TurnOrder ==
    {<<"idle", "ensure">>, <<"idle", "idle">>, <<"ensure", "connect">>,
     <<"connect", "retry">>, <<"connect", "check">>, <<"retry", "check">>,
     <<"check", "query">>, <<"check", "idle">>, <<"query", "receive">>,
     <<"receive", "receive">>, <<"receive", "disconnect">>,
     <<"disconnect", "idle">>,
     <<"connect", "except">>, <<"retry", "except">>, <<"query", "except">>,
     <<"receive", "except">>, <<"except", "idle">>}

\* the order of the steps, and the failures that end in the error outcome
C25_OrderStep ==
    /\ <<pc, pc'>> \in TurnOrder
    /\ Len(attempts') > Len(attempts) => pc \in {"connect", "retry"}
    /\ pc' = "query" => connected' /\ client' # NoClient
    /\ nEvents' > nEvents => pc = "receive"
    /\ discCalls' > discCalls => pc \in {"disconnect", "except"}
    /\ err' # err /\ err' # "" => pc' = "except"
    /\ pc = "except" =>
           IF mode = "invoke" THEN ret' = <<ErrApology(err)>>
           ELSE yielded' = Append(yielded, ErrApology(err))

\* client.disconnect() was called in this step and raised
DisconnectFailed == discCalls' > discCalls /\ connected'

C26_LastWriterWins ==
    /\ c_writes # <<>> => c_store = c_sid[c_writes[Len(c_writes)]]
    /\ (c_serial /\ c_issued # <<>> /\ \A p \in Procs : ~InFlight(p))
           => c_store = c_issued[Len(c_issued)]

\* two overlapping turns are over and the store holds the id issued first
C26_Witness ==
    /\ ~c_serial /\ \A p \in Procs : c_pc[p] = "done"
    /\ Len(c_issued) >= 2 /\ c_store = c_issued[1]
    /\ c_store # c_issued[Len(c_issued)]

\* C27: for every event sequence of a turn, the text ainvoke returns equals,
\* up to leading and trailing whitespace, the concatenation of the fragments
\* stream yields for the same events.
C27_InvokeStreamAgree ==
    p_pc = "done" => Strip(p_ret[1]) = Strip(Flatten(p_yielded))

\* the part of C27 that holds: the two agree on a turn whose only event is a
\* result event that stream yields text for
C27_AgreeOnResultAlone ==
    (p_pc = "done" /\ p_n = 1 /\ p_ev # <<>> /\ p_stream # <<>>)
        => Strip(p_ret[1]) = Strip(Flatten(p_yielded))

\* C29: a result event whose result is null or empty adds no text: ainvoke
\* returns the accumulated assistant text alone and stream yields no
\* fragment for that event.
NoResultText(ev) == ev \in {ResultEv(<<>>), EmptyResult}
C29_Step ==
    (p_pc = "receive" /\ p_pc' = "done" /\ p_ev' # <<>>
        /\ NoResultText(p_ev'[1]))
        => (p_yielded' = p_yielded /\ p_ret' = <<InvokeReturn(p_invoke)>>)
C29_NoResultTextSilent == [][C29_Step]_vars

\* the part of C29 that holds: an empty result string adds no text
C29_EmptyStep ==
    (p_pc = "receive" /\ p_pc' = "done" /\ p_ev' = <<EmptyResult>>)
        => (p_yielded' = p_yielded /\ p_ret' = <<InvokeReturn(p_invoke)>>)
C29_EmptyStringSilent == [][C29_EmptyStep]_vars

\* C28: when the caller stops consuming a stream that is still receiving, the
\* adapter still disconnects: no connection is left open by the abandoned
\* turn.
Abandoned == pc = "receive" /\ pc' = "idle"
C28_Step == Abandoned => (~connected' /\ discCalls' > discCalls)
C28_AbandonedStreamDisconnects == [][C28_Step]_vars

\* C30: each of the six tools, called with a path that resolves outside the
\* workspace root, reports the rejection as an error outcome (a raised error
\* or an error record), which no successful call of the tool returns.
ErrorOutcome(out) == out.kind \in {"raised", "error"}
C30_RejectionReported == t_rejected => ErrorOutcome(t_out)

\* the part of C30 that holds: five of the six tools report the rejection,
\* and no accepted call of any tool returns an error outcome for it
C30_ReportedButGlob ==
    /\ (t_rejected /\ t_op # "glob_files") => ErrorOutcome(t_out)
    /\ (t_n > 0 /\ ~t_rejected /\ t_op = "glob_files") => ~ErrorOutcome(t_out)

====
